---- MODULE Spec2Model ----
(***************************************************************************)
(* A model of the custom memory allocator (seiftnesse/memoryallocator):    *)
(* the block heap over `memory`, the bitmap-managed small pool, the        *)
(* statistics record and the zero-on-free policy, as implemented in        *)
(* src/src/custom_alloc_core.cpp, custom_alloc_small.cpp,                  *)
(* custom_alloc_util.cpp, custom_alloc_stats.cpp and custom_alloc_debug.cpp*)
(*                                                                         *)
(* Representation.                                                         *)
(*  - Addresses are integers; NULL is 0.  `memory` starts at memory_base,  *)
(*    `small_pool` at small_pool_base, which the build chooses: Init takes *)
(*    MemoryAddr and SmallPoolAddr, InitAnywhere also less aligned ones.   *)
(*  - A size_t value v is represented by the integer r congruent to v      *)
(*    modulo 2^64 with |r| < 2^31: SIZE_MAX is -1, SIZE_MAX - 63 is -64.   *)
(*    Integer addition on representatives is then exactly size_t addition  *)
(*    (with its wrap-around) as long as the result stays in the window;    *)
(*    comparisons of size_t values go through ULt/ULe.                     *)
(*  - The bytes of `memory` and `small_pool` are run-length encoded: a     *)
(*    run [len, tag, off] stands for len bytes; tag 0 is the zero byte,    *)
(*    tag -1 a byte of a segment header, tag k > 0 byte number off, off+1, *)
(*    ... of the pattern the client wrote in its k-th call.                *)
(*  - The segment headers that live in `memory` are kept structured in     *)
(*    `seg`, a function from header address to the header's fields.        *)
(*    Headers absorbed by a merge stay there (they stay in memory) until   *)
(*    user data or zeroing overwrites their bytes.  The integrity records  *)
(*    (header guard and checksum) are kept the same way in `integrity`;    *)
(*    tag -2 is a byte of a footer guard, tag -3 a byte of a wrong value   *)
(*    written over one.                                                    *)
(***************************************************************************)
EXTENDS Integers, Sequences, FiniteSets, TLC

(***************************************************************************)
(* Bounds of the model (the regions are scaled down, the rest is as in the *)
(* source).                                                                *)
(***************************************************************************)
HeapBlocks == 5
PoolSlots == 3
MaxCalls == 4

(***************************************************************************)
(* Program constants.                                                      *)
(***************************************************************************)
BLOCK_SIZE == 4096
ALIGNMENT == 16
SMALL_ALLOCATION_THRESHOLD == 256
SMALL_BLOCK_SIZE == 32
SEGMENT_MAGIC == -889275714
INT_MAX == 2147483647
SizeofSegment == 48
HEAP_SIZE == HeapBlocks * BLOCK_SIZE
SMALL_POOL_SIZE == PoolSlots * SMALL_BLOCK_SIZE
ZERO_DEPTH_NONE == 0
ZERO_DEPTH_SHALLOW == 1
ZERO_DEPTH_MEDIUM == 2
ZERO_DEPTH_DEEP == 3
DefaultShallowZeroSize == 64
DefaultIntegrityCheckLevel == 1
\* sizeof(segment_integrity_t): uint32_t header_guard, uint32_t checksum
SizeofIntegrity == 8
HEADER_GUARD_VALUE == -559038242
FOOTER_GUARD_VALUE == -17958194
SizeofFooter == 4
MAX_REASONABLE_BLOCKS == HEAP_SIZE \div BLOCK_SIZE

NULL == 0
MemoryAddr == 65536
SmallPoolAddr == 1024

VARIABLES
  heap_initialized,     \* int heap_initialized
  segments,             \* segment_t *segments (head of the list)
  last_free_segment,    \* segment_t *last_free_segment (search hint)
  next_allocation_id,   \* uint32_t next_allocation_id
  seg,                  \* the segment headers in memory, by address
  small_block_bitmap,   \* one bit per small-pool slot
  allocation_stats,     \* AllocationStats allocation_stats
  memory,               \* bytes of uint8_t memory[HEAP_SIZE]
  small_pool,           \* bytes of uint8_t small_pool[SMALL_POOL_SIZE]
  zero_on_free_depth,   \* int zero_on_free_depth
  shallow_zero_size,    \* size_t shallow_zero_size
  debug_mode,           \* int debug_mode
  integrity_check_level,\* int integrity_check_level
  integrity,            \* the segment_integrity_t records in memory, by address
  memory_base,          \* (uintptr_t) memory: where the build placed the array
  small_pool_base,      \* (uintptr_t) small_pool: where the build placed it
  inflight,             \* per thread: the _malloc call it is inside, if any
  outstanding,          \* client: pointer -> requested size, for pointers held
  call,                 \* client: the last call made and what it returned
  ncalls                \* client: number of malloc/free/realloc calls made

vars == <<heap_initialized, segments, last_free_segment, next_allocation_id,
          seg, small_block_bitmap, allocation_stats, memory, small_pool,
          zero_on_free_depth, shallow_zero_size, debug_mode,
          integrity_check_level, integrity, memory_base, small_pool_base,
          outstanding, call, ncalls, inflight>>

(***************************************************************************)
(* size_t comparisons on window representatives.                           *)
(***************************************************************************)
ULt(a, b) == IF (a < 0) = (b < 0) THEN a < b ELSE b < 0
ULe(a, b) == a = b \/ ULt(a, b)
Min(a, b) == IF a < b THEN a ELSE b

(***************************************************************************)
(* Byte contents: run-length encoded arrays.                               *)
(***************************************************************************)
ZeroRun(n) == IF n > 0 THEN <<[len |-> n, tag |-> 0, off |-> 0]>> ELSE <<>>
HeaderRun(n) == <<[len |-> n, tag |-> -1, off |-> 0]>>
PatternRun(n, k) == IF n > 0 THEN <<[len |-> n, tag |-> k, off |-> 0]>> ELSE <<>>

RECURSIVE RunLen(_)
RunLen(rs) == IF rs = <<>> THEN 0 ELSE rs[1].len + RunLen(Tail(rs))

CanJoin(a, b) == a.tag = b.tag /\ (a.tag <= 0 \/ b.off = a.off + a.len)

RECURSIVE Norm(_)
Norm(rs) ==
  IF Len(rs) < 2 THEN rs
  ELSE IF CanJoin(rs[1], rs[2])
       THEN Norm(<<[rs[1] EXCEPT !.len = rs[1].len + rs[2].len]>>
                 \o SubSeq(rs, 3, Len(rs)))
       ELSE <<rs[1]>> \o Norm(Tail(rs))

RECURSIVE Take(_, _)
Take(rs, n) ==
  IF n <= 0 \/ rs = <<>> THEN <<>>
  ELSE IF rs[1].len <= n THEN <<rs[1]>> \o Take(Tail(rs), n - rs[1].len)
       ELSE <<[rs[1] EXCEPT !.len = n]>>

RECURSIVE Drop(_, _)
Drop(rs, n) ==
  IF n <= 0 \/ rs = <<>> THEN rs
  ELSE IF rs[1].len <= n THEN Drop(Tail(rs), n - rs[1].len)
       ELSE <<[len |-> rs[1].len - n, tag |-> rs[1].tag,
               off |-> IF rs[1].tag > 0 THEN rs[1].off + n ELSE 0]>>
            \o Tail(rs)

\* bytes [a, a+n) of an array, a an index into it
ReadBytes(rs, a, n) == Norm(Take(Drop(rs, a), n))
\* the array with the bytes from index a on replaced by the runs new
WriteBytes(rs, a, new) ==
  Norm(Take(rs, a) \o new \o Drop(rs, a + RunLen(new)))

(***************************************************************************)
(* The allocator state as one record, so that the functions of the source  *)
(* (which call one another) can be written as functions from state to      *)
(* state.                                                                  *)
(***************************************************************************)
St ==
  [heap_initialized |-> heap_initialized, segments |-> segments,
   last_free_segment |-> last_free_segment,
   next_allocation_id |-> next_allocation_id, seg |-> seg,
   small_block_bitmap |-> small_block_bitmap,
   allocation_stats |-> allocation_stats, memory |-> memory,
   small_pool |-> small_pool, zero_on_free_depth |-> zero_on_free_depth,
   shallow_zero_size |-> shallow_zero_size, debug_mode |-> debug_mode,
   integrity_check_level |-> integrity_check_level, integrity |-> integrity]

\* is_small_allocation: the address lies in [small_pool, small_pool + SMALL_POOL_SIZE)
is_small_allocation(ptr) ==
  ptr # NULL /\ ptr >= small_pool_base /\ ptr < small_pool_base + SMALL_POOL_SIZE

\* the n bytes at address a
Load(st, a, n) ==
  IF is_small_allocation(a)
  THEN ReadBytes(st.small_pool, a - small_pool_base, n)
  ELSE ReadBytes(st.memory, a - memory_base, n)

\* headers of seg that keep all their bytes when [a, a+n) is overwritten
Untouched(sg, a, n) ==
  {h \in DOMAIN sg : h + SizeofSegment <= a \/ a + n <= h}

\* integrity records that keep all their bytes when [a, a+n) is overwritten
UntouchedRecords(ig, a, n) ==
  {h \in DOMAIN ig : h + SizeofIntegrity <= a \/ a + n <= h}

\* write the bytes new at address a (user data, zeroing, copies)
Store(st, a, new) ==
  IF new = <<>> THEN st
  ELSE IF is_small_allocation(a)
  THEN [st EXCEPT !.small_pool = WriteBytes(@, a - small_pool_base, new)]
  ELSE [st EXCEPT !.memory = WriteBytes(@, a - memory_base, new),
                  !.seg = [h \in Untouched(@, a, RunLen(new)) |-> @[h]],
                  !.integrity =
                     [h \in UntouchedRecords(@, a, RunLen(new)) |-> @[h]]]

\* write the segment header hdr at address a
PutHeader(st, a, hdr) ==
  [st EXCEPT !.memory = WriteBytes(@, a - memory_base, HeaderRun(SizeofSegment)),
             !.seg = [h \in DOMAIN @ \cup {a} |-> IF h = a THEN hdr ELSE @[h]],
             !.integrity =
                [h \in UntouchedRecords(@, a, SizeofSegment) |-> @[h]]]

\* write the integrity record rec at address a
PutIntegrity(st, a, rec) ==
  [st EXCEPT
     !.memory = WriteBytes(@, a - memory_base, HeaderRun(SizeofIntegrity)),
     !.seg = [h \in Untouched(@, a, SizeofIntegrity) |-> @[h]],
     !.integrity = [h \in DOMAIN @ \cup {a} |-> IF h = a THEN rec ELSE @[h]]]

\* _memset(dest, 0, count)
memset_zero(st, dest, count) ==
  IF dest = NULL \/ count = 0 THEN st
  ELSE IF ULt(HEAP_SIZE, count) THEN st
  ELSE Store(st, dest, ZeroRun(count))

\* the copy loops of _memcpy run forward: when dest lies d bytes after src
\* and d < bytes, the bytes from index d on are read after they were written
RECURSIVE CopyForward(_, _, _, _)
CopyForward(st, dest, src, bytes) ==
  IF bytes <= 0 THEN st
  ELSE LET d == dest - src
           n == IF d > 0 /\ d < bytes THEN d ELSE bytes
       IN CopyForward(Store(st, dest, Load(st, src, n)),
                      dest + n, src + n, bytes - n)

memcpy(st, dest, src, bytes) ==
  IF dest = NULL \/ src = NULL \/ bytes = 0 THEN st
  ELSE CopyForward(st, dest, src, bytes)

(***************************************************************************)
(* Statistics (custom_alloc_stats.cpp).                                    *)
(***************************************************************************)
ZeroStats ==
  [total_allocated |-> 0, total_freed |-> 0, allocation_count |-> 0,
   peak_allocation |-> 0, fragmentation_bytes |-> 0, small_pool_used |-> 0]

update_stats_allocate(st, size) ==
  LET a == st.allocation_stats
      total == a.total_allocated + size
  IN [st EXCEPT !.allocation_stats =
        [a EXCEPT !.total_allocated = total,
                  !.allocation_count = @ + 1,
                  !.peak_allocation = IF total > @ THEN total ELSE @]]

update_stats_free(st, size) ==
  LET a == st.allocation_stats
  IN [st EXCEPT !.allocation_stats =
        [a EXCEPT
           !.total_allocated = IF size > a.total_allocated THEN 0 ELSE @ - size,
           !.total_freed = IF size > a.total_allocated
                           THEN @ + a.total_allocated ELSE @ + size,
           !.allocation_count = IF @ > 0 THEN @ - 1 ELSE @]]

(***************************************************************************)
(* Zero-on-free: how many bytes of a region of user_size bytes are zeroed, *)
(* and the zeroing itself (the switch of _free and of free_small).         *)
(***************************************************************************)
\* user_size is a size_t: half of a value of 2^63 or more (a negative
\* representative) is outside the window and is represented by SIZE_MAX,
\* which _memset, the only reader, treats alike (both exceed HEAP_SIZE)
ZeroSize(st, user_size) ==
  IF st.zero_on_free_depth = ZERO_DEPTH_SHALLOW
  THEN (IF ULt(st.shallow_zero_size, user_size)
        THEN st.shallow_zero_size ELSE user_size)
  ELSE IF st.zero_on_free_depth = ZERO_DEPTH_MEDIUM
  THEN (IF user_size < 0 THEN -1 ELSE user_size \div 2)
  ELSE user_size

ZeroOnFree(st, ptr, user_size) ==
  IF st.zero_on_free_depth > ZERO_DEPTH_NONE /\ user_size # 0
  THEN memset_zero(st, ptr, ZeroSize(st, user_size))
  ELSE st

(***************************************************************************)
(* Small pool (custom_alloc_small.cpp).                                    *)
(***************************************************************************)
NumSlots == SMALL_POOL_SIZE \div SMALL_BLOCK_SIZE

\* a faulty scan for allocate_small: the first clear slot, whatever follows it
SmallScanFirstClear(bitmap, i, consecutive_blocks, start_block, blocks_needed) ==
  IF \E j \in DOMAIN bitmap : bitmap[j] = 0
  THEN CHOOSE j \in DOMAIN bitmap :
         bitmap[j] = 0 /\ \A l \in DOMAIN bitmap : bitmap[l] = 0 => j <= l
  ELSE -1

\* the scan of allocate_small from slot i: the start of the first run of
\* blocks_needed clear bits, or -1
RECURSIVE SmallScan(_, _, _, _, _)
SmallScan(bitmap, i, consecutive_blocks, start_block, blocks_needed) ==
  IF i >= NumSlots THEN -1
  ELSE IF bitmap[i] = 0
  THEN IF consecutive_blocks + 1 >= blocks_needed
       THEN (IF consecutive_blocks = 0 THEN i ELSE start_block)
       ELSE SmallScan(bitmap, i + 1, consecutive_blocks + 1,
                      IF consecutive_blocks = 0 THEN i ELSE start_block,
                      blocks_needed)
  ELSE SmallScan(bitmap, i + 1, 0, start_block, blocks_needed)

SetBits(bitmap, start, n, v) ==
  [i \in DOMAIN bitmap |-> IF i >= start /\ i < start + n THEN v ELSE bitmap[i]]

BlocksNeeded(size) == (size + SMALL_BLOCK_SIZE - 1) \div SMALL_BLOCK_SIZE

\* allocate_small once the scan has ended, at start_block or with -1
allocate_small_at(st, blocks_needed, start_block) ==
  IF start_block = -1 THEN [st |-> st, ret |-> NULL]
  ELSE [st |-> update_stats_allocate(
                 [st EXCEPT
                    !.small_block_bitmap = SetBits(@, start_block, blocks_needed, 1),
                    !.allocation_stats.small_pool_used =
                        @ + blocks_needed * SMALL_BLOCK_SIZE],
                 blocks_needed * SMALL_BLOCK_SIZE),
        ret |-> small_pool_base + start_block * SMALL_BLOCK_SIZE]

allocate_small(st, size) ==
  IF ULt(SMALL_ALLOCATION_THRESHOLD, size) THEN [st |-> st, ret |-> NULL]
  ELSE allocate_small_at(st, BlocksNeeded(size),
         SmallScan(st.small_block_bitmap, 0, 0, -1, BlocksNeeded(size)))

\* the counting loop of free_small (and of _realloc's small path): the number
\* of consecutive set bits from start_block on
RECURSIVE CountBlocks(_, _)
CountBlocks(bitmap, start_block) ==
  IF start_block >= NumSlots THEN 0
  ELSE IF bitmap[start_block] = 0 THEN 0
  ELSE 1 + CountBlocks(bitmap, start_block + 1)

\* free_small, the statistics
free_small_stats(st, total_size_freed) ==
  update_stats_free(
    [st EXCEPT !.allocation_stats.small_pool_used =
        IF @ >= total_size_freed THEN @ - total_size_freed ELSE 0],
    total_size_freed)

\* free_small once the blocks are counted: zero, clear the bits, update
\* the statistics
free_small_run(st, ptr, start_block, blocks_to_free) ==
  IF blocks_to_free > 0
  THEN free_small_stats(
         [ZeroOnFree(st, ptr, blocks_to_free * SMALL_BLOCK_SIZE) EXCEPT
            !.small_block_bitmap = SetBits(@, start_block, blocks_to_free, 0)],
         blocks_to_free * SMALL_BLOCK_SIZE)
  ELSE st

StartBlock(ptr) == (ptr - small_pool_base) \div SMALL_BLOCK_SIZE

free_small(st, ptr) ==
  IF ptr = NULL \/ ptr < small_pool_base \/ ptr >= small_pool_base + SMALL_POOL_SIZE
  THEN st
  ELSE free_small_run(st, ptr, StartBlock(ptr),
                      CountBlocks(st.small_block_bitmap, StartBlock(ptr)))

(***************************************************************************)
(* Block heap (custom_alloc_core.cpp, custom_alloc_util.cpp).              *)
(***************************************************************************)
AlignUp(addr) == ((addr + ALIGNMENT - 1) \div ALIGNMENT) * ALIGNMENT

\* a faulty SegmentToPtr that leaves room for one more aligned unit after the
\* header, which PtrToSegment does not take back
SegmentToPtrPastUnit(s) ==
  IF s = NULL THEN NULL ELSE AlignUp(s + SizeofSegment + ALIGNMENT)

SegmentToPtr(s) == IF s = NULL THEN NULL ELSE AlignUp(s + SizeofSegment)

(***************************************************************************)
(* Segment integrity (custom_alloc_util.cpp).  The checksum of a header is *)
(* represented by the tuple of the six fields it hashes: headers with      *)
(* equal fields have equal checksums.                                      *)
(***************************************************************************)
calculate_segment_checksum(hdr) ==
  <<hdr.is_free, hdr.size, hdr.next, hdr.prev, hdr.allocation_id, hdr.magic>>

\* get_segment_integrity: the record follows the header if it fits before
\* the user pointer
get_segment_integrity(s) ==
  IF s = NULL THEN NULL
  ELSE IF s + SizeofSegment + SizeofIntegrity > SegmentToPtr(s) THEN NULL
  ELSE s + SizeofSegment

\* the record read at address a; where none was written the bytes are user
\* data or zeros, which are neither guard nor checksum
LoadIntegrity(st, a) ==
  IF a \in DOMAIN st.integrity THEN st.integrity[a]
  ELSE [header_guard |-> 0, checksum |-> <<>>]

\* get_segment_footer: the last four bytes of the segment's block range
get_segment_footer(st, s) ==
  IF s = NULL THEN NULL
  ELSE IF st.seg[s].size <= 0 \/ st.seg[s].size > MAX_REASONABLE_BLOCKS
  THEN NULL
  ELSE s + st.seg[s].size * BLOCK_SIZE - SizeofFooter

FooterRun == <<[len |-> SizeofFooter, tag |-> -2, off |-> 0]>>
WrongFooterRun == <<[len |-> SizeofFooter, tag |-> -3, off |-> 0]>>

\* *footer = FOOTER_GUARD_VALUE
WriteFooter(st, footer) ==
  IF footer # NULL THEN Store(st, footer, FooterRun) ELSE st

set_segment_footer(st, s) ==
  IF s = NULL \/ st.integrity_check_level < 2 THEN st
  ELSE WriteFooter(st, get_segment_footer(st, s))

\* initialize_segment_integrity: the record is written if it fits before the
\* user pointer, then the footer at level 3
initialize_segment_integrity(st, s) ==
  IF s = NULL \/ st.integrity_check_level < 2 THEN st
  ELSE IF s + SizeofSegment + SizeofIntegrity > SegmentToPtr(s) THEN st
  ELSE IF st.integrity_check_level >= 3
  THEN set_segment_footer(
         PutIntegrity(st, s + SizeofSegment,
           [header_guard |-> HEADER_GUARD_VALUE,
            checksum |-> calculate_segment_checksum(st.seg[s])]), s)
  ELSE PutIntegrity(st, s + SizeofSegment,
         [header_guard |-> HEADER_GUARD_VALUE,
          checksum |-> calculate_segment_checksum(st.seg[s])])

\* one more error, and the state repair gives if repair is set
Found(r, repair, repaired) ==
  [st |-> IF repair # 0 THEN repaired ELSE r.st, errors |-> r.errors + 1]

\* verify_segment_integrity: the magic number
verify_magic(r, s, repair) ==
  IF r.st.seg[s].magic # SEGMENT_MAGIC
  THEN Found(r, repair, [r.st EXCEPT !.seg[s].magic = SEGMENT_MAGIC])
  ELSE r

\* the size verify_segment_integrity derives from the distance to s->next
CorrectedSize(st, s) == (st.seg[s].next - s) \div BLOCK_SIZE

\* verify_segment_integrity: the size; it is corrected only for a segment
\* that has a successor
verify_size(r, s, repair) ==
  IF r.st.seg[s].size <= 0 \/ r.st.seg[s].size > MAX_REASONABLE_BLOCKS
  THEN Found(r, repair,
         IF /\ r.st.seg[s].next # NULL
            /\ CorrectedSize(r.st, s) > 0
            /\ CorrectedSize(r.st, s) <= MAX_REASONABLE_BLOCKS
         THEN [r.st EXCEPT !.seg[s].size = CorrectedSize(r.st, s)]
         ELSE r.st)
  ELSE r

\* verify_segment_integrity: the header guard of the record at a
verify_header_guard(r, a, repair) ==
  IF LoadIntegrity(r.st, a).header_guard # HEADER_GUARD_VALUE
  THEN Found(r, repair,
         PutIntegrity(r.st, a,
           [LoadIntegrity(r.st, a) EXCEPT !.header_guard = HEADER_GUARD_VALUE]))
  ELSE r

\* verify_segment_integrity: the checksum of the record at a
verify_checksum(r, s, a, repair) ==
  IF LoadIntegrity(r.st, a).checksum # calculate_segment_checksum(r.st.seg[s])
  THEN Found(r, repair,
         PutIntegrity(r.st, a,
           [LoadIntegrity(r.st, a) EXCEPT
              !.checksum = calculate_segment_checksum(r.st.seg[s])]))
  ELSE r

\* verify_segment_integrity at level 3: the footer guard
verify_footer(r, s, footer, repair) ==
  IF footer # NULL /\ Load(r.st, footer, SizeofFooter) # FooterRun
  THEN Found(r, repair, WriteFooter(r.st, footer))
  ELSE r

\* verify_segment_integrity at level 3: s->next->prev is s
verify_next_link(r, s, repair) ==
  IF r.st.seg[s].next # NULL /\ r.st.seg[r.st.seg[s].next].prev # s
  THEN Found(r, repair, [r.st EXCEPT !.seg[r.st.seg[s].next].prev = s])
  ELSE r

\* verify_segment_integrity at level 3: s->prev->next is s
verify_prev_link(r, s, repair) ==
  IF r.st.seg[s].prev # NULL /\ r.st.seg[r.st.seg[s].prev].next # s
  THEN Found(r, repair, [r.st EXCEPT !.seg[r.st.seg[s].prev].next = s])
  ELSE r

\* verify_segment_integrity at level 3: the segment lies in memory[]
verify_bounds(r, s) ==
  IF s < memory_base \/ s >= memory_base + HEAP_SIZE
  THEN [st |-> r.st, errors |-> r.errors + 1]
  ELSE r

\* verify_segment_integrity: the checks of level 3
verify_thorough(r, s, repair) ==
  IF r.st.integrity_check_level >= 3
  THEN verify_bounds(
         verify_prev_link(
           verify_next_link(
             verify_footer(r, s, get_segment_footer(r.st, s), repair),
             s, repair),
           s, repair),
         s)
  ELSE r

\* verify_segment_integrity once the record is known to be at a
verify_record(r, s, a, repair) ==
  verify_thorough(
    verify_checksum(verify_header_guard(r, a, repair), s, a, repair),
    s, repair)

\* verify_segment_integrity when get_segment_integrity has returned null:
\* with repair it initializes the record and asks again
verify_without_record(r, s, repair) ==
  IF repair # 0
  THEN (IF get_segment_integrity(s) # NULL
        THEN verify_record(
               [st |-> initialize_segment_integrity(r.st, s),
                errors |-> r.errors],
               s, get_segment_integrity(s), repair)
        ELSE [st |-> initialize_segment_integrity(r.st, s),
              errors |-> r.errors])
  ELSE r

\* verify_segment_integrity: the checks of level 2 and above
verify_standard(r, s, repair) ==
  IF r.st.integrity_check_level < 2 THEN r
  ELSE IF get_segment_integrity(s) = NULL
  THEN verify_without_record(r, s, repair)
  ELSE verify_record(r, s, get_segment_integrity(s), repair)

verify_segment_integrity(st, s, repair) ==
  IF s = NULL THEN [st |-> st, errors |-> 0]
  ELSE verify_standard(
         verify_size(verify_magic([st |-> st, errors |-> 0], s, repair),
                     s, repair),
         s, repair)

\* verify_heap_integrity: the walk from segment s on; s->next is read after
\* s was verified
RECURSIVE verify_from(_, _, _)
verify_after(v, total, s, repair) ==
  verify_from([st |-> v.st, errors |-> total + v.errors],
              v.st.seg[s].next, repair)

verify_from(r, s, repair) ==
  IF s = NULL THEN r
  ELSE verify_after(verify_segment_integrity(r.st, s, repair), r.errors, s,
                    repair)

\* HeapVerifyIntegrity(repair) returns what verify_heap_integrity counts
HeapVerifyIntegrity(st, repair) ==
  IF st.heap_initialized = 0 THEN [st |-> st, errors |-> -1]
  ELSE verify_from([st |-> st, errors |-> 0], st.segments, repair)

\* HeapSetIntegrityCheckLevel(level)
HeapSetIntegrityCheckLevel(st, level) ==
  IF level >= 0 /\ level <= 3
  THEN [st EXCEPT !.integrity_check_level = level] ELSE st

\* check_memory_corruption: nothing unless debug_mode is set; with
\* debug_mode set it verifies the header with repair
check_memory_corruption(st, s) ==
  IF st.debug_mode = 0 \/ s = NULL THEN st
  ELSE verify_segment_integrity(st, s, 1).st

\* HeapInit once the buffer is aligned
HeapInitAt(st, base, size) ==
  [PutHeader(st, base,
     [is_free |-> 1, size |-> size \div BLOCK_SIZE, next |-> NULL,
      prev |-> NULL, allocation_id |-> 0, magic |-> SEGMENT_MAGIC])
   EXCEPT !.segments = base, !.last_free_segment = base,
          !.heap_initialized = 1, !.allocation_stats = ZeroStats]

HeapInit(st, buf, size) ==
  IF buf = NULL \/ size < SizeofSegment + BLOCK_SIZE THEN st
  ELSE IF buf % ALIGNMENT # 0
  THEN HeapInitAt(st, AlignUp(buf), size - (AlignUp(buf) - buf))
  ELSE HeapInitAt(st, buf, size)

EnsureHeapInitialized(st) ==
  IF st.heap_initialized = 0
  THEN [HeapInit(st, memory_base, HEAP_SIZE) EXCEPT !.heap_initialized = 1]
  ELSE st

\* a faulty walk for SearchFree: the first free segment that fits
RECURSIVE SearchFreeFirstFit(_, _, _, _, _)
SearchFreeFirstFit(sg, s, size, best_fit, best_size) ==
  IF s = NULL THEN best_fit
  ELSE IF sg[s].is_free # 0 /\ sg[s].size >= size THEN s
  ELSE SearchFreeFirstFit(sg, sg[s].next, size, best_fit, best_size)

\* the walk of SearchFree from segment s on; check_memory_corruption(s),
\* called for each candidate, leaves a header with a valid magic and size
\* as it is
RECURSIVE SearchFreeFrom(_, _, _, _, _)
SearchFreeFrom(sg, s, size, best_fit, best_size) ==
  IF s = NULL THEN best_fit
  ELSE IF sg[s].is_free # 0 /\ sg[s].size >= size /\ sg[s].size < best_size
  THEN IF sg[s].size = size THEN s
       ELSE SearchFreeFrom(sg, sg[s].next, size, s, sg[s].size)
  ELSE SearchFreeFrom(sg, sg[s].next, size, best_fit, best_size)

SearchFree(sg, s, size) == SearchFreeFrom(sg, s, size, NULL, INT_MAX)

GetNumBlock(size) ==
  IF ULt(INT_MAX - BLOCK_SIZE, size) THEN INT_MAX \div BLOCK_SIZE
  ELSE (size + BLOCK_SIZE - 1) \div BLOCK_SIZE

\* the number of blocks _malloc and _realloc ask for
RequiredBlocks(size) == GetNumBlock(size + SizeofSegment + ALIGNMENT)

\* the address of the header CutSegment creates
CutAddr(s, size, size_to_cut) == AlignUp(s + (size - size_to_cut) * BLOCK_SIZE)

\* a faulty list update for CutSegment: s is followed by the new header but
\* keeps all its blocks
CutLinkKeepSize(st, s, nxt, addr, remaining) ==
  [st EXCEPT !.seg =
     [h \in DOMAIN @ |->
        IF h = s THEN [@[h] EXCEPT !.next = addr]
        ELSE IF h = nxt THEN [@[h] EXCEPT !.prev = addr]
        ELSE @[h]]]

\* a faulty list update for CutSegment: the old successor keeps its prev
CutLinkNoPrev(st, s, nxt, addr, remaining) ==
  [st EXCEPT !.seg[s] = [@ EXCEPT !.size = remaining, !.next = addr]]

\* a faulty list update for CutSegment: the new header points back to s
CutLinkLoop(st, s, nxt, addr, remaining) ==
  [st EXCEPT !.seg =
     [h \in DOMAIN @ |->
        IF h = s THEN [@[h] EXCEPT !.size = remaining, !.next = addr]
        ELSE IF h = addr THEN [@[h] EXCEPT !.next = s]
        ELSE IF h = nxt THEN [@[h] EXCEPT !.prev = addr]
        ELSE @[h]]]

\* CutSegment, the list update: s keeps remaining blocks and is followed by
\* the new header at addr, which the old successor nxt gets as its prev
CutLink(st, s, nxt, addr, remaining) ==
  [st EXCEPT !.seg =
     [h \in DOMAIN @ |->
        IF h = s THEN [@[h] EXCEPT !.size = remaining, !.next = addr]
        ELSE IF h = nxt THEN [@[h] EXCEPT !.prev = addr]
        ELSE @[h]]]

\* CutSegment; initialize_segment_integrity(result) is called last
CutSegment(st, s, size_to_cut) ==
  IF st.seg[s].size <= size_to_cut THEN [st |-> st, result |-> s]
  ELSE [st |-> initialize_segment_integrity(
                 CutLink(
                   PutHeader(st, CutAddr(s, st.seg[s].size, size_to_cut),
                     [is_free |-> st.seg[s].is_free, size |-> size_to_cut,
                      next |-> st.seg[s].next, prev |-> s, allocation_id |-> 0,
                      magic |-> SEGMENT_MAGIC]),
                   s, st.seg[s].next, CutAddr(s, st.seg[s].size, size_to_cut),
                   st.seg[s].size - size_to_cut),
                 CutAddr(s, st.seg[s].size, size_to_cut)),
        result |-> CutAddr(s, st.seg[s].size, size_to_cut)]

\* a faulty list update for MergeSegment: the hint is left on the absorbed
\* header
MergeLinkKeepHint(st, first_segment, second_segment, second) ==
  [st EXCEPT
     !.seg =
       [h \in DOMAIN @ |->
          IF h = first_segment
          THEN [@[h] EXCEPT !.size = @ + second.size, !.next = second.next]
          ELSE IF h = second.next THEN [@[h] EXCEPT !.prev = first_segment]
          ELSE IF h = second_segment /\ st.debug_mode # 0
          THEN [@[h] EXCEPT !.magic = 0]
          ELSE @[h]]]

\* MergeSegment, the list update; second is the header of second_segment
MergeLink(st, first_segment, second_segment, second) ==
  [st EXCEPT
     !.last_free_segment = IF @ = second_segment THEN first_segment ELSE @,
     !.seg =
       [h \in DOMAIN @ |->
          IF h = first_segment
          THEN [@[h] EXCEPT !.size = @ + second.size, !.next = second.next]
          ELSE IF h = second.next THEN [@[h] EXCEPT !.prev = first_segment]
          ELSE IF h = second_segment /\ st.debug_mode # 0
          THEN [@[h] EXCEPT !.magic = 0]
          ELSE @[h]]]

\* MergeSegment; initialize_segment_integrity(first_segment) is called last
MergeSegment(st, first_segment, second_segment) ==
  IF first_segment = NULL \/ second_segment = NULL THEN st
  ELSE initialize_segment_integrity(
         MergeLink(
           check_memory_corruption(
             check_memory_corruption(st, first_segment), second_segment),
           first_segment, second_segment, st.seg[second_segment]),
         first_segment)

SegmentAddr(ptr) == (ptr - (ptr % ALIGNMENT)) - SizeofSegment

PtrToSegment(st, ptr) ==
  IF ptr = NULL THEN NULL
  ELSE IF st.debug_mode # 0 /\ st.seg[SegmentAddr(ptr)].magic # SEGMENT_MAGIC
  THEN NULL
  ELSE SegmentAddr(ptr)

\* _malloc: the search from the hint, then from the head
FullSearchIfNull(st, required_blocks, it) ==
  IF it = NULL THEN SearchFree(st.seg, st.segments, required_blocks) ELSE it

FindFree(st, required_blocks) ==
  FullSearchIfNull(st, required_blocks,
    IF st.last_free_segment # NULL
    THEN SearchFree(st.seg, st.last_free_segment, required_blocks)
    ELSE NULL)

\* a faulty marking for _malloc: the allocation id is given but the segment
\* is left free
MarkUsedKeepsFree(st, it) ==
  [st EXCEPT !.seg[it].allocation_id = st.next_allocation_id,
             !.next_allocation_id = @ + 1]

\* _malloc: mark the segment used and give it the next allocation id
MarkUsed(st, it) ==
  [st EXCEPT !.seg[it].is_free = 0,
             !.seg[it].allocation_id = st.next_allocation_id,
             !.next_allocation_id = @ + 1]

\* a faulty ending of the split: the hint is left where it was
SetRemainingFreeKeepHint(c) ==
  [c.st EXCEPT !.seg[c.result].is_free = 1]

\* remaining->is_free = 1; last_free_segment = remaining, for the result c
\* of CutSegment
SetRemainingFree(c) ==
  [c.st EXCEPT !.seg[c.result].is_free = 1, !.last_free_segment = c.result]

\* _malloc: split if more than one block is left over
SplitIfLarger(st, it, required_blocks) ==
  IF st.seg[it].size > required_blocks + 1
  THEN SetRemainingFree(CutSegment(st, it, st.seg[it].size - required_blocks))
  ELSE [st EXCEPT !.last_free_segment = IF @ = it THEN NULL ELSE @]

\* _malloc: the statistics and the user pointer
Granted(st, it) ==
  [st |-> update_stats_allocate(st, st.seg[it].size * BLOCK_SIZE),
   ret |-> SegmentToPtr(it)]

\* _malloc once the search has ended, at it or with NULL
malloc_found(st, it, required_blocks) ==
  IF it = NULL THEN [st |-> st, ret |-> NULL]
  ELSE Granted(SplitIfLarger(MarkUsed(st, it), it, required_blocks), it)

\* _malloc from EnsureHeapInitialized on: the block heap
malloc_block(st, size) ==
  malloc_found(st, FindFree(st, RequiredBlocks(size)), RequiredBlocks(size))

\* _malloc after the small pool was tried, with result small
malloc_fallback(st, size, small) ==
  IF small.ret # NULL THEN small
  ELSE malloc_block(EnsureHeapInitialized(st), size)

malloc(st, size) ==
  IF size = 0 THEN [st |-> st, ret |-> NULL]
  ELSE malloc_fallback(st, size,
         IF ULe(size, SMALL_ALLOCATION_THRESHOLD)
         THEN allocate_small(st, size) ELSE [st |-> st, ret |-> NULL])

\* _free: statistics, mark free, set the hint
MarkFree(st, s) ==
  [update_stats_free(st, st.seg[s].size * BLOCK_SIZE)
   EXCEPT !.seg[s].is_free = 1, !.last_free_segment = s]

\* a faulty _free that never merges with the next segment
MergeNextSkipped(st, s) == st

\* _free: merge with the next segment if it is free
MergeNext(st, s) ==
  IF st.seg[s].next # NULL /\ st.seg[st.seg[s].next].is_free # 0
  THEN MergeSegment(st, s, st.seg[s].next) ELSE st

\* _free: merge with the previous segment if it is free; set the hint to the
\* segment that survives
MergePrev(st, s) ==
  IF st.seg[s].prev # NULL /\ st.seg[st.seg[s].prev].is_free # 0
  THEN [MergeSegment(st, st.seg[s].prev, s)
        EXCEPT !.last_free_segment = st.seg[s].prev]
  ELSE [st EXCEPT !.last_free_segment = s]

\* the bytes of the segment at s from the user pointer on
UserDataSize(st, s) == st.seg[s].size * BLOCK_SIZE - (SegmentToPtr(s) - s)

\* _free of a block-heap pointer whose segment s is in use
free_block(st, s) ==
  MergePrev(
    MergeNext(
      MarkFree(ZeroOnFree(st, SegmentToPtr(s), UserDataSize(st, s)), s), s), s)

\* a faulty _free without the double-free guard
free_block_unguarded(st, s) == free_block(st, s)

\* _free after check_memory_corruption: the double-free guard
free_unless_free(st, s) ==
  IF st.seg[s].is_free # 0 THEN st ELSE free_block(st, s)

\* _free once PtrToSegment has returned s
free_segment(st, s) ==
  IF s = NULL THEN st
  ELSE free_unless_free(check_memory_corruption(st, s), s)

free(st, ptr) ==
  IF ptr = NULL THEN st
  ELSE IF is_small_allocation(ptr) THEN free_small(st, ptr)
  ELSE free_segment(st, PtrToSegment(st, ptr))

\* _realloc of a small-pool pointer once _malloc has returned m: copy the
\* old bytes (the old size is counted in the bitmap), free the old pointer
realloc_small_copy(m, ptr, size) ==
  IF m.ret = NULL THEN [st |-> m.st, ret |-> NULL]
  ELSE [st |-> free(
                 memcpy(m.st, m.ret, ptr,
                   Min(size,
                       CountBlocks(m.st.small_block_bitmap, StartBlock(ptr))
                         * SMALL_BLOCK_SIZE)),
                 ptr),
        ret |-> m.ret]

\* _realloc of a small-pool pointer: allocate, copy, free
realloc_small(st, ptr, size) == realloc_small_copy(malloc(st, size), ptr, size)

\* the blocks a shrink or an in-place growth must have to spare for a split
SpareBlocks == GetNumBlock(SizeofSegment + ALIGNMENT)

\* _realloc, shrinking: update_stats_free(s->size - required_blocks), called
\* after CutSegment has reduced s->size
ShrinkStats(st, s, required_blocks) ==
  update_stats_free(st, st.seg[s].size - required_blocks)

\* _realloc, shrinking in place
realloc_shrink(st, s, ptr, required_blocks) ==
  IF st.seg[s].size > required_blocks + SpareBlocks
  THEN [st |-> ShrinkStats(
                 SetRemainingFree(
                   CutSegment(st, s, st.seg[s].size - required_blocks)),
                 s, required_blocks),
        ret |-> ptr]
  ELSE [st |-> st, ret |-> ptr]

\* a faulty split for the growth: the excess is never split off
SplitExcessNever(st, s, required_blocks) == st

\* _realloc, growing: split off the excess after the merge
SplitExcess(st, s, required_blocks) ==
  IF st.seg[s].size > required_blocks + SpareBlocks
  THEN SetRemainingFree(CutSegment(st, s, st.seg[s].size - required_blocks))
  ELSE st

\* _realloc, growing: update_stats_allocate(s->size - old_size)
ExpandStats(st, s, old_size) ==
  update_stats_allocate(st, st.seg[s].size - old_size)

\* _realloc, growing into the free successor
realloc_expand(st, s, ptr, required_blocks) ==
  [st |-> ExpandStats(
            SplitExcess(MergeSegment(st, s, st.seg[s].next), s, required_blocks),
            s, st.seg[s].size),
   ret |-> ptr]

\* the number of bytes _realloc copies when it moves a block
CopySize(size, current_data_size) ==
  IF Min(size, current_data_size) > HEAP_SIZE THEN 0
  ELSE Min(size, current_data_size)

\* a faulty move for _realloc: the old pointer is freed also when _malloc
\* has failed
realloc_move_copy_freeing(m, ptr, size, current_data_size) ==
  [st |-> free(memcpy(m.st, m.ret, ptr,
                      IF m.ret = NULL THEN 0
                      ELSE CopySize(size, current_data_size)),
               ptr),
   ret |-> m.ret]

\* _realloc, moving, once _malloc has returned m: copy, free the old pointer
realloc_move_copy(m, ptr, size, current_data_size) ==
  IF m.ret = NULL THEN [st |-> m.st, ret |-> NULL]
  ELSE [st |-> free(memcpy(m.st, m.ret, ptr, CopySize(size, current_data_size)),
                    ptr),
        ret |-> m.ret]

\* _realloc, moving: allocate, copy, free
realloc_move(st, ptr, size, current_data_size) ==
  realloc_move_copy(malloc(st, size), ptr, size, current_data_size)

\* the data size _realloc computes for the segment at s
CurrentDataSize(st, s) ==
  IF UserDataSize(st, s) > st.seg[s].size * BLOCK_SIZE THEN 0
  ELSE UserDataSize(st, s)

\* _realloc of a block-heap pointer after check_memory_corruption
realloc_checked(st, s, ptr, size, required_blocks) ==
  IF st.seg[s].is_free # 0 THEN [st |-> st, ret |-> NULL]
  ELSE IF st.seg[s].size = required_blocks THEN [st |-> st, ret |-> ptr]
  ELSE IF st.seg[s].size > required_blocks
  THEN realloc_shrink(st, s, ptr, required_blocks)
  ELSE IF /\ st.seg[s].next # NULL
          /\ st.seg[st.seg[s].next].is_free # 0
          /\ st.seg[s].size + st.seg[st.seg[s].next].size >= required_blocks
  THEN realloc_expand(st, s, ptr, required_blocks)
  ELSE realloc_move(st, ptr, size, CurrentDataSize(st, s))

\* _realloc once PtrToSegment has returned s
realloc_segment(st, s, ptr, size) ==
  IF s = NULL THEN [st |-> st, ret |-> NULL]
  ELSE realloc_checked(check_memory_corruption(st, s), s, ptr, size,
                       RequiredBlocks(size))

\* _realloc of a block-heap pointer, from EnsureHeapInitialized on
realloc_block(st, ptr, size) ==
  realloc_segment(st, PtrToSegment(st, ptr), ptr, size)

\* _realloc of a non-null pointer with a size the limit lets through
realloc_within_limit(st, ptr, size) ==
  IF is_small_allocation(ptr) THEN realloc_small(st, ptr, size)
  ELSE realloc_block(EnsureHeapInitialized(st), ptr, size)

\* a faulty _realloc without the case of a null pointer
realloc_without_null_case(st, ptr, size) ==
  IF size = 0 THEN [st |-> free(st, ptr), ret |-> NULL]
  ELSE IF ULt(HEAP_SIZE \div 2, size) THEN [st |-> st, ret |-> NULL]
  ELSE realloc_within_limit(st, ptr, size)

\* a faulty _realloc that returns null for size 0 without freeing
realloc_zero_keeps(st, ptr, size) ==
  IF ptr = NULL THEN malloc(st, size)
  ELSE IF size = 0 THEN [st |-> st, ret |-> NULL]
  ELSE IF ULt(HEAP_SIZE \div 2, size) THEN [st |-> st, ret |-> NULL]
  ELSE realloc_within_limit(st, ptr, size)

\* a faulty _realloc whose limit also rejects HEAP_SIZE / 2 itself
realloc_limit_inclusive(st, ptr, size) ==
  IF ptr = NULL THEN malloc(st, size)
  ELSE IF size = 0 THEN [st |-> free(st, ptr), ret |-> NULL]
  ELSE IF ULe(HEAP_SIZE \div 2, size) THEN [st |-> st, ret |-> NULL]
  ELSE realloc_within_limit(st, ptr, size)

realloc(st, ptr, size) ==
  IF ptr = NULL THEN malloc(st, size)
  ELSE IF size = 0 THEN [st |-> free(st, ptr), ret |-> NULL]
  ELSE IF ULt(HEAP_SIZE \div 2, size) THEN [st |-> st, ret |-> NULL]
  ELSE realloc_within_limit(st, ptr, size)

\* HeapSetZeroOnFree(depth, shallow_size)
HeapSetZeroOnFree(st, depth, shallow_size) ==
  [st EXCEPT
     !.zero_on_free_depth =
        IF depth >= ZERO_DEPTH_NONE /\ depth <= ZERO_DEPTH_DEEP
        THEN depth ELSE ZERO_DEPTH_NONE,
     !.shallow_zero_size = IF shallow_size > 0 THEN shallow_size ELSE @]

\* HeapEnableDebug(enable)
HeapEnableDebug(st, enable) == [st EXCEPT !.debug_mode = enable]

\* the walk of HeapGetFragmentation from segment s on: the number of free
\* segments and the free bytes counted so far
RECURSIVE CountFree(_, _, _, _)
CountFree(sg, s, free_segments, free_memory) ==
  IF s = NULL
  THEN [free_segments |-> free_segments, free_memory |-> free_memory]
  ELSE IF sg[s].is_free # 0
  THEN CountFree(sg, sg[s].next, free_segments + 1,
                 free_memory + sg[s].size * BLOCK_SIZE)
  ELSE CountFree(sg, sg[s].next, free_segments, free_memory)

\* 1 - (free_memory / free_segments) / free_memory in thousandths, rounded
\* down (the code computes it in float)
Fragmentation(c) ==
  IF c.free_memory = 0 THEN 0
  ELSE 1000 - (1000 * (c.free_memory \div c.free_segments)) \div c.free_memory

\* HeapGetFragmentation()
HeapGetFragmentation(st) ==
  IF st.heap_initialized = 0 THEN 0
  ELSE Fragmentation(CountFree(st.seg, st.segments, 0, 0))

(***************************************************************************)
(* The client: a single thread that configures zero-on-free before its     *)
(* first allocation, then calls _malloc, _free and _realloc, at most       *)
(* MaxCalls times.  It frees and reallocates only pointers it holds, and   *)
(* it fills each block it gets from _malloc with a pattern of its own (as  *)
(* tests/simple_test.cpp and tests/zero_on_free_test.cpp do).              *)
(***************************************************************************)
\* request sizes: the largest that needs one block, the smallest that needs
\* two, the smallest that needs three
OneBlock == BLOCK_SIZE - SizeofSegment - ALIGNMENT
TwoBlocks == OneBlock + 1
ThreeBlocks == OneBlock + BLOCK_SIZE + 1
Sizes == {0, SMALL_BLOCK_SIZE, 2 * SMALL_BLOCK_SIZE, OneBlock, TwoBlocks,
          ThreeBlocks, HEAP_SIZE}
\* SIZE_MAX and SIZE_MAX - 63
WrapSizes == {-1, -(SizeofSegment + ALIGNMENT)}
ZeroConfigs == {<<ZERO_DEPTH_SHALLOW, 16>>, <<ZERO_DEPTH_MEDIUM, 0>>,
                <<ZERO_DEPTH_DEEP, 0>>}

\* the worker threads of the client, and a thread that is inside no call
Threads == {1, 2}
Idle == [pc |-> "idle", size |-> 0, it |-> NULL]

SetAllocator(st) ==
  /\ heap_initialized' = st.heap_initialized
  /\ segments' = st.segments
  /\ last_free_segment' = st.last_free_segment
  /\ next_allocation_id' = st.next_allocation_id
  /\ seg' = st.seg
  /\ small_block_bitmap' = st.small_block_bitmap
  /\ allocation_stats' = st.allocation_stats
  /\ memory' = st.memory
  /\ small_pool' = st.small_pool
  /\ zero_on_free_depth' = st.zero_on_free_depth
  /\ shallow_zero_size' = st.shallow_zero_size
  /\ debug_mode' = st.debug_mode
  /\ integrity_check_level' = st.integrity_check_level
  /\ integrity' = st.integrity
  /\ UNCHANGED <<memory_base, small_pool_base>>

\* a call that runs from entry to return with no other call in between
SetState(st) == SetAllocator(st) /\ UNCHANGED inflight

\* the client writes its pattern into the size bytes it asked for
ClientFill(st, ptr, size, k) ==
  IF ptr # NULL /\ size > 0 THEN Store(st, ptr, PatternRun(size, k)) ELSE st

\* the client's record of a block it holds: the pointer, the size it asked
\* for and the number of the call that returned it
Hold(out, ptr, size, k) ==
  IF ptr = NULL THEN out
  ELSE out \cup {[ptr |-> ptr, size |-> size, k |-> k]}

\* the state after the program is loaded with memory[] at address m and
\* small_pool[] at address p
InitAt(m, p) ==
  /\ memory_base = m
  /\ small_pool_base = p
  /\ heap_initialized = 0
  /\ segments = NULL
  /\ last_free_segment = NULL
  /\ next_allocation_id = 1
  /\ seg = [h \in {} |-> 0]
  /\ small_block_bitmap = [i \in 0 .. NumSlots - 1 |-> 0]
  /\ allocation_stats = ZeroStats
  /\ memory = ZeroRun(HEAP_SIZE)
  /\ small_pool = ZeroRun(SMALL_POOL_SIZE)
  /\ zero_on_free_depth = ZERO_DEPTH_NONE
  /\ shallow_zero_size = DefaultShallowZeroSize
  /\ debug_mode = 0
  /\ integrity_check_level = DefaultIntegrityCheckLevel
  /\ integrity = [a \in {} |-> 0]
  /\ outstanding = {}
  /\ call = [op |-> "none", ptr |-> NULL, size |-> 0, held |-> 0, ret |-> NULL]
  /\ ncalls = 0
  /\ inflight = [t \in Threads |-> Idle]

Init == InitAt(MemoryAddr, SmallPoolAddr)

Configure(depth, shallow_size) ==
  /\ ncalls = 0
  /\ call.op = "none"
  /\ SetState(HeapSetZeroOnFree(St, depth, shallow_size))
  /\ call' = [op |-> "HeapSetZeroOnFree", ptr |-> NULL, size |-> 0,
              held |-> 0, ret |-> NULL]
  /\ UNCHANGED <<outstanding, ncalls>>

\* the client's bookkeeping when a call with a null pointer argument returns r
Allocated(op, size, r) ==
  /\ SetState(ClientFill(r.st, r.ret, size, ncalls + 1))
  /\ outstanding' = Hold(outstanding, r.ret, size, ncalls + 1)
  /\ call' = [op |-> op, ptr |-> NULL, size |-> size, held |-> 0, ret |-> r.ret]
  /\ ncalls' = ncalls + 1

\* the client's bookkeeping when _realloc of the held block h returns r
Reallocated(h, size, r) ==
  /\ SetState(r.st)
  /\ outstanding' =
       IF size = 0 THEN outstanding \ {h}
       ELSE IF r.ret = NULL THEN outstanding
       ELSE Hold(outstanding \ {h}, r.ret, size, ncalls + 1)
  /\ call' = [op |-> "realloc", ptr |-> h.ptr, size |-> size,
              held |-> h.size, ret |-> r.ret]
  /\ ncalls' = ncalls + 1

Malloc(size) ==
  /\ ncalls < MaxCalls
  /\ Allocated("malloc", size, malloc(St, size))

Free(h) ==
  /\ ncalls < MaxCalls
  /\ SetState(free(St, h.ptr))
  /\ outstanding' = outstanding \ {h}
  /\ call' = [op |-> "free", ptr |-> h.ptr, size |-> 0, held |-> h.size,
              ret |-> NULL]
  /\ ncalls' = ncalls + 1

Realloc(h, size) ==
  /\ ncalls < MaxCalls
  /\ Reallocated(h, size, realloc(St, h.ptr, size))

ReallocNull(size) ==
  /\ ncalls < MaxCalls
  /\ Allocated("realloc", size, realloc(St, NULL, size))

NextOn(S) ==
  \/ \E c \in ZeroConfigs : Configure(c[1], c[2])
  \/ \E size \in S : Malloc(size)
  \/ \E h \in outstanding : Free(h)
  \/ \E h \in outstanding, size \in S : Realloc(h, size)
  \/ \E size \in S : ReallocNull(size)

Next == NextOn(Sizes)

Spec == Init /\ [][Next]_vars

\* the same client, also asking for sizes near SIZE_MAX
NextWrap == NextOn(Sizes \cup WrapSizes)

SpecWrap == Init /\ [][NextWrap]_vars

\* the client frees again the block-heap pointer it has just freed; it does
\* so at most once per free, also after its last call
FreeAgain ==
  /\ call.op = "free"
  /\ call.ptr # NULL
  /\ ~is_small_allocation(call.ptr)
  /\ SetState(free(St, call.ptr))
  /\ call' = [op |-> "free again", ptr |-> call.ptr, size |-> 0,
              held |-> call.held, ret |-> NULL]
  /\ ncalls' = ncalls + 1
  /\ UNCHANGED outstanding

NextDoubleFree == Next \/ FreeAgain

SpecDoubleFree == Init /\ [][NextDoubleFree]_vars

\* the client turns debug mode on before its first call
EnableDebug ==
  /\ ncalls = 0
  /\ debug_mode = 0
  /\ SetState(HeapEnableDebug(St, 1))
  /\ call' = [op |-> "HeapEnableDebug", ptr |-> NULL, size |-> 1, held |-> 0,
              ret |-> NULL]
  /\ UNCHANGED <<outstanding, ncalls>>

\* the client frees a null pointer
FreeNull ==
  /\ ncalls < MaxCalls
  /\ SetState(free(St, NULL))
  /\ call' = [op |-> "free null", ptr |-> NULL, size |-> 0, held |-> 0,
              ret |-> NULL]
  /\ ncalls' = ncalls + 1
  /\ UNCHANGED outstanding

\* all the slots granted to the held small-pool block h are set
LiveRun(h) ==
  \A i \in StartBlock(h.ptr) .. StartBlock(h.ptr) + BlocksNeeded(h.size) - 1 :
    small_block_bitmap[i] = 1

\* the client frees the address of slot j >= 1 of the live small-pool run it
\* holds as h, a pointer the allocator never handed out
FreeInside(h, j) ==
  /\ ncalls < MaxCalls
  /\ is_small_allocation(h.ptr)
  /\ LiveRun(h)
  /\ SetState(free(St, h.ptr + j * SMALL_BLOCK_SIZE))
  /\ call' = [op |-> "free inside", ptr |-> h.ptr + j * SMALL_BLOCK_SIZE,
              size |-> 0, held |-> h.size, ret |-> NULL]
  /\ ncalls' = ncalls + 1
  /\ UNCHANGED outstanding

NextBadFree ==
  \/ Next
  \/ EnableDebug
  \/ FreeNull
  \/ \E h \in outstanding : \E j \in 1 .. BlocksNeeded(h.size) - 1 :
       FreeInside(h, j)

SpecBadFree == Init /\ [][NextBadFree]_vars

\* the client that calls only _malloc and _free
NextMallocFree ==
  \/ \E c \in ZeroConfigs : Configure(c[1], c[2])
  \/ \E size \in Sizes : Malloc(size)
  \/ \E h \in outstanding : Free(h)

SpecMallocFree == Init /\ [][NextMallocFree]_vars

\* the largest size the limit of _realloc lets through
HalfHeap == HEAP_SIZE \div 2

\* the same client, also asking for exactly HEAP_SIZE / 2
NextHalf == NextOn(Sizes \cup {HalfHeap})

SpecHalf == Init /\ [][NextHalf]_vars

\* the same client, also asking for the first size over the limit of _realloc
NextOverHalf == NextOn(Sizes \cup {HalfHeap + 1})

SpecOverHalf == Init /\ [][NextOverHalf]_vars

\* where a build may place the two uint8_t arrays, which are declared
\* without an alignment: at a multiple of ALIGNMENT or 8 bytes past one
MemoryPlacements == {MemoryAddr, MemoryAddr + 8}
PoolPlacements == {SmallPoolAddr, SmallPoolAddr + 8}

InitAnywhere ==
  \E m \in MemoryPlacements, p \in PoolPlacements : InitAt(m, p)

SpecAnyPlacement == InitAnywhere /\ [][Next]_vars

\* the client sets the integrity check level before its first call
SetIntegrityLevel(level) ==
  /\ ncalls = 0
  /\ integrity_check_level = DefaultIntegrityCheckLevel
  /\ SetState(HeapSetIntegrityCheckLevel(St, level))
  /\ call' = [op |-> "HeapSetIntegrityCheckLevel", ptr |-> NULL,
              size |-> level, held |-> 0, ret |-> NULL]
  /\ UNCHANGED <<outstanding, ncalls>>

NextIntegrity ==
  \/ Next
  \/ EnableDebug
  \/ \E level \in {2, 3} : SetIntegrityLevel(level)

SpecIntegrity == Init /\ [][NextIntegrity]_vars

\* the pointer the first allocation from the block heap returns, which a
\* client can hold from an earlier run of the heap
StalePtr == SegmentToPtr(AlignUp(memory_base))

\* the state in which the header PtrToSegment(ptr) refers to is readable:
\* where no header was written the bytes of the static array are zero, and
\* so is every field
WithHeaderOf(st, ptr) ==
  IF SegmentAddr(ptr) \in DOMAIN st.seg THEN st
  ELSE [st EXCEPT !.seg =
          [h \in DOMAIN @ \cup {SegmentAddr(ptr)} |->
             IF h = SegmentAddr(ptr)
             THEN [is_free |-> 0, size |-> 0, next |-> NULL, prev |-> NULL,
                   allocation_id |-> 0, magic |-> 0]
             ELSE @[h]]]

\* the first call that reaches the block heap is _free of the stale pointer
FreeStale ==
  /\ ncalls < MaxCalls
  /\ heap_initialized = 0
  /\ SetState(free(WithHeaderOf(St, StalePtr), StalePtr))
  /\ call' = [op |-> "free stale", ptr |-> StalePtr, size |-> 0, held |-> 0,
              ret |-> NULL]
  /\ ncalls' = ncalls + 1
  /\ UNCHANGED outstanding

\* the client's bookkeeping when _realloc of the stale pointer returns r
StaleReallocated(size, r) ==
  /\ SetState(ClientFill(r.st, r.ret, size, ncalls + 1))
  /\ outstanding' = Hold(outstanding, r.ret, size, ncalls + 1)
  /\ call' = [op |-> "realloc stale", ptr |-> StalePtr, size |-> size,
              held |-> 0, ret |-> r.ret]
  /\ ncalls' = ncalls + 1

\* the first call that reaches the block heap is _realloc of the stale
\* pointer
ReallocStale(size) ==
  /\ ncalls < MaxCalls
  /\ heap_initialized = 0
  /\ StaleReallocated(size, realloc(WithHeaderOf(St, StalePtr), StalePtr, size))

NextStale ==
  \/ Next
  \/ FreeStale
  \/ \E size \in Sizes : ReallocStale(size)

SpecStale == Init /\ [][NextStale]_vars

(***************************************************************************)
(* The thread-safety test (tests/threadsafe_test.cpp): main calls           *)
(* HeapEnableThreadSafety(1) and starts worker threads that call _malloc    *)
(* and _free.  _malloc and allocate_small take no lock, so the steps of two *)
(* calls interleave: a call searches, and marks and splits what it found    *)
(* in later steps.                                                          *)
(***************************************************************************)
\* main: HeapEnableThreadSafety(1); it stores nothing that _malloc, _free or
\* allocate_small read
EnableThreadSafety ==
  /\ call.op = "none"
  /\ SetState(St)
  /\ call' = [op |-> "HeapEnableThreadSafety", ptr |-> NULL, size |-> 1,
              held |-> 0, ret |-> NULL]
  /\ UNCHANGED <<outstanding, ncalls>>

\* main: HeapEnableDebug(1), before the workers are started
EnableDebugBeforeWorkers ==
  /\ call.op = "HeapEnableThreadSafety"
  /\ \A t \in Threads : inflight[t] = Idle
  /\ EnableDebug

WorkersStarted == call.op # "none"

\* every header a walk from s reads is still a header: no thread has written
\* its data over it
RECURSIVE Walkable(_, _)
Walkable(sg, s) == s = NULL \/ (s \in DOMAIN sg /\ Walkable(sg, sg[s].next))

\* the calls the model follows: those that read headers only.  Once two
\* calls share a segment a thread may fill its block past the segment's end,
\* and a later call would take that thread's bytes for a header.
HeapReadable == Walkable(seg, segments) /\ Walkable(seg, last_free_segment)
InsideCalls == Cardinality({t \in Threads : inflight[t] # Idle})

\* the scan of allocate_small has found start_block: the thread has yet to
\* set the bits
FoundSlots(t, size, start_block) ==
  /\ inflight' = [inflight EXCEPT ![t] = [pc |-> "mark small", size |-> size,
                                          it |-> start_block]]
  /\ SetAllocator(St)

\* the small pool was not tried or has no run: the heap is installed and the
\* two-stage search of _malloc has ended at it or with NULL; the thread has
\* yet to mark it
SearchedIn(st, t, size) ==
  /\ inflight' = [inflight EXCEPT ![t] =
                    [pc |-> "mark", size |-> size,
                     it |-> FindFree(st, RequiredBlocks(size))]]
  /\ SetAllocator(st)

\* _malloc up to the end of its search, with start_block the result of the
\* scan of the small pool (-1 if it was not tried)
EnteredWith(t, size, start_block) ==
  IF start_block # -1 THEN FoundSlots(t, size, start_block)
  ELSE SearchedIn(EnsureHeapInitialized(St), t, size)

\* thread t calls _malloc(size) and runs it to the end of its search
EnterMalloc(t, size) ==
  /\ WorkersStarted
  /\ HeapReadable
  /\ inflight[t] = Idle
  /\ ncalls + InsideCalls < MaxCalls
  /\ size # 0
  /\ EnteredWith(t, size,
       IF ULe(size, SMALL_ALLOCATION_THRESHOLD)
       THEN SmallScan(small_block_bitmap, 0, 0, -1, BlocksNeeded(size))
       ELSE -1)
  /\ UNCHANGED <<outstanding, call, ncalls>>

\* the _malloc call of thread t returns r; the thread fills what it got
ThreadReturn(t, r) ==
  /\ SetAllocator(ClientFill(r.st, r.ret, inflight[t].size, ncalls + 1))
  /\ outstanding' = Hold(outstanding, r.ret, inflight[t].size, ncalls + 1)
  /\ call' = [op |-> "malloc", ptr |-> NULL, size |-> inflight[t].size,
              held |-> 0, ret |-> r.ret]
  /\ ncalls' = ncalls + 1
  /\ inflight' = [inflight EXCEPT ![t] = Idle]

\* allocate_small from the setting of the bits on
MarkSmall(t) ==
  /\ inflight[t].pc = "mark small"
  /\ ThreadReturn(t, allocate_small_at(St, BlocksNeeded(inflight[t].size),
                                       inflight[t].it))

\* _malloc: nothing was found
ReturnNull(t) ==
  /\ inflight[t].pc = "mark"
  /\ inflight[t].it = NULL
  /\ ThreadReturn(t, [st |-> St, ret |-> NULL])

\* _malloc: it->is_free = 0 and the allocation id
Mark(t) ==
  /\ inflight[t].pc = "mark"
  /\ inflight[t].it \in DOMAIN seg
  /\ HeapReadable
  /\ SetAllocator(MarkUsed(St, inflight[t].it))
  /\ inflight' = [inflight EXCEPT ![t].pc = "split"]
  /\ UNCHANGED <<outstanding, call, ncalls>>

\* _malloc from the split on
Split(t) ==
  /\ inflight[t].pc = "split"
  /\ inflight[t].it \in DOMAIN seg
  /\ HeapReadable
  /\ ThreadReturn(t, Granted(SplitIfLarger(St, inflight[t].it,
                                           RequiredBlocks(inflight[t].size)),
                             inflight[t].it))

\* thread t, inside no call, frees a block the program holds
ThreadFree(t, h) ==
  /\ inflight[t] = Idle
  /\ HeapReadable
  /\ is_small_allocation(h.ptr) \/ SegmentAddr(h.ptr) \in DOMAIN seg
  /\ Free(h)

NextThreads ==
  \/ EnableThreadSafety
  \/ EnableDebugBeforeWorkers
  \/ \E t \in Threads, size \in Sizes : EnterMalloc(t, size)
  \/ \E t \in Threads : MarkSmall(t)
  \/ \E t \in Threads : ReturnNull(t)
  \/ \E t \in Threads : Mark(t)
  \/ \E t \in Threads : Split(t)
  \/ \E t \in Threads, h \in outstanding : ThreadFree(t, h)

SpecThreads == Init /\ [][NextThreads]_vars

(***************************************************************************)
(* Views of the state used by the properties.                              *)
(***************************************************************************)
\* the addresses of the segments reached from s by next links, in order
RECURSIVE ListFrom(_, _)
ListFrom(sg, s) == IF s = NULL THEN <<>> ELSE <<s>> \o ListFrom(sg, sg[s].next)

SegList == ListFrom(seg, segments)
InList(s) == \E i \in 1 .. Len(SegList) : SegList[i] = s

RECURSIVE SumSizes(_, _)
SumSizes(sg, l) == IF l = <<>> THEN 0 ELSE sg[l[1]].size + SumSizes(sg, Tail(l))

\* the blocks held by the client in the block heap
BlockHeld == {h \in outstanding : ~is_small_allocation(h.ptr)}
SmallHeld == {h \in outstanding : is_small_allocation(h.ptr)}
SegOf(h) == PtrToSegment(St, h.ptr)

(***************************************************************************)
(* Corruption of the metadata and its repair                               *)
(* (tests/integrity_verification_test.cpp).                                *)
(***************************************************************************)
\* the values inject_corruption writes (tests/integrity_verification_test.cpp)
WrongMagic == 305419896
WrongSize == -100
WrongHeaderGuard == -559038737
CorruptionKinds ==
  {"magic", "size", "linked_list", "checksum", "header_guard", "footer_guard"}

\* inject_corruption on the segment at s; the record and the footer are
\* written only where get_segment_integrity and get_segment_footer give an
\* address
inject_corruption(st, s, kind) ==
  IF kind = "magic" THEN [st EXCEPT !.seg[s].magic = WrongMagic]
  ELSE IF kind = "size" THEN [st EXCEPT !.seg[s].size = WrongSize]
  ELSE IF kind = "linked_list"
  THEN (IF st.seg[s].next # NULL
        THEN [st EXCEPT !.seg[st.seg[s].next].prev = NULL] ELSE st)
  ELSE IF kind = "checksum"
  THEN (IF get_segment_integrity(s) # NULL
        THEN PutIntegrity(st, get_segment_integrity(s),
               [LoadIntegrity(st, get_segment_integrity(s)) EXCEPT
                  !.checksum = <<"inverted", @>>])
        ELSE st)
  ELSE IF kind = "header_guard"
  THEN (IF get_segment_integrity(s) # NULL
        THEN PutIntegrity(st, get_segment_integrity(s),
               [LoadIntegrity(st, get_segment_integrity(s)) EXCEPT
                  !.header_guard = WrongHeaderGuard])
        ELSE st)
  ELSE (IF get_segment_footer(st, s) # NULL
        THEN Store(st, get_segment_footer(st, s), WrongFooterRun) ELSE st)

\* nobody has written into the metadata yet
Intact == call.op \notin CorruptionKinds /\ call.op # "HeapVerifyIntegrity"

\* something corrupts the segment at s of the list, once
Corrupt(s, kind) ==
  /\ Intact
  /\ heap_initialized # 0
  /\ InList(s)
  /\ SetState(inject_corruption(St, s, kind))
  /\ call' = [op |-> kind, ptr |-> s, size |-> 0, held |-> 0, ret |-> NULL]
  /\ UNCHANGED <<outstanding, ncalls>>

\* the client's bookkeeping when HeapVerifyIntegrity(1) returns v
Verified(v) ==
  /\ SetState(v.st)
  /\ call' = [op |-> "HeapVerifyIntegrity", ptr |-> call.ptr, size |-> 1,
              held |-> 0, ret |-> v.errors]
  /\ UNCHANGED <<outstanding, ncalls>>

\* HeapVerifyIntegrity(1), called right after the corruption
VerifyRepair ==
  /\ call.op \in CorruptionKinds
  /\ Verified(HeapVerifyIntegrity(St, 1))

\* the client that calls _malloc and _free until something corrupts a
\* segment, and then HeapVerifyIntegrity(1)
NextCorrupt ==
  \/ Intact /\ EnableDebug
  \/ Intact /\ \E level \in {2, 3} : SetIntegrityLevel(level)
  \/ Intact /\ \E size \in Sizes : Malloc(size)
  \/ Intact /\ \E h \in outstanding : Free(h)
  \/ \E s \in DOMAIN seg, kind \in CorruptionKinds : Corrupt(s, kind)
  \/ VerifyRepair

SpecCorrupt == Init /\ [][NextCorrupt]_vars

\* the client also asks for the fragmentation and has the heap verified,
\* without repair, between its calls
GetFragmentation ==
  /\ call.op # "HeapGetFragmentation"
  /\ SetState(St)
  /\ call' = [op |-> "HeapGetFragmentation", ptr |-> NULL, size |-> 0,
              held |-> 0, ret |-> HeapGetFragmentation(St)]
  /\ UNCHANGED <<outstanding, ncalls>>

VerifyHeap ==
  /\ call.op # "HeapVerifyIntegrity"
  /\ SetState(HeapVerifyIntegrity(St, 0).st)
  /\ call' = [op |-> "HeapVerifyIntegrity", ptr |-> NULL, size |-> 0,
              held |-> 0, ret |-> HeapVerifyIntegrity(St, 0).errors]
  /\ UNCHANGED <<outstanding, ncalls>>

NextWalks == Next \/ GetFragmentation \/ VerifyHeap

SpecWalks == Init /\ [][NextWalks]_vars

(***************************************************************************)
(* Properties.                                                             *)
(***************************************************************************)
\* the block range [s, s + size * BLOCK_SIZE) of the segment at s
SegEnd(s) == s + seg[s].size * BLOCK_SIZE
Disjoint(s1, s2) == SegEnd(s1) <= s2 \/ SegEnd(s2) <= s1

\* C1: after any sequence of malloc, free and realloc calls with sizes that
\* do not wrap, every block-heap pointer the client holds refers to a segment
\* of the list that is marked in use, and no two of them refer to the same
\* segment or to overlapping block ranges.
C1_HeldSegmentsInUseAndDisjoint ==
  /\ \A h \in BlockHeld :
       /\ SegOf(h) \in DOMAIN seg
       /\ InList(SegOf(h))
       /\ seg[SegOf(h)].is_free = 0
  /\ \A h1, h2 \in BlockHeld :
       h1 # h2 => SegOf(h1) # SegOf(h2) /\ Disjoint(SegOf(h1), SegOf(h2))

\* two blocks of the block heap are held at once, after a free and a realloc
C1_Witness ==
  /\ Cardinality(BlockHeld) >= 2
  /\ allocation_stats.total_freed > 0
  /\ call.op = "realloc" /\ call.ptr # NULL /\ call.ret # NULL

\* C3: no two segments that are adjacent in the segment list are both free.
C3_NoAdjacentFree ==
  \A i \in 1 .. Len(SegList) - 1 :
    ~(seg[SegList[i]].is_free # 0 /\ seg[SegList[i + 1]].is_free # 0)

\* C5: the segment list walked from the head covers the heap without gaps or
\* overlaps: every segment has at least one block, each segment starts where
\* its predecessor ends, and the sizes sum to the block count HeapInit fixed.
C5_ListCoversHeap ==
  heap_initialized # 0 =>
    /\ SegList # <<>>
    /\ SegList[1] = AlignUp(memory_base)
    /\ \A i \in 1 .. Len(SegList) : seg[SegList[i]].size >= 1
    /\ \A i \in 1 .. Len(SegList) - 1 : SegList[i + 1] = SegEnd(SegList[i])
    /\ SumSizes(seg, SegList) =
         (HEAP_SIZE - (AlignUp(memory_base) - memory_base)) \div BLOCK_SIZE

\* the list has been split and a merge has absorbed a header
C5_Witness ==
  /\ Len(SegList) >= 2
  /\ \E h \in DOMAIN seg : ~InList(h)

\* C6: allocation_count equals the number of pointers the client holds.
C6_CountMatchesHeld ==
  allocation_stats.allocation_count = Cardinality(outstanding)

\* C7: total_allocated is at most HEAP_SIZE + SMALL_POOL_SIZE.
C7_TotalAllocatedBounded ==
  allocation_stats.total_allocated <= HEAP_SIZE + SMALL_POOL_SIZE

\* the step is a call of op that has returned
Returned(op) == ncalls' = ncalls + 1 /\ call'.op = op

\* the bitmap slots granted to the held small-pool block h
GrantedSlots(h) ==
  StartBlock(h.ptr) .. StartBlock(h.ptr) + BlocksNeeded(h.size) - 1

\* C2: free of a small-pool pointer clears exactly the bitmap slots granted
\* to its allocation; every other slot, the slots of a live allocation right
\* after it included, keeps its value.
C2_FreeSmallClearsExactlyGranted ==
  [][\A h \in SmallHeld :
       (Returned("free") /\ call'.ptr = h.ptr) =>
         small_block_bitmap' =
           [i \in DOMAIN small_block_bitmap |->
              IF i \in GrantedSlots(h) THEN 0 ELSE small_block_bitmap[i]]]_vars

\* C4: a realloc of a held pointer to at least the held size that returns
\* non-null yields a pointer whose first bytes, as many as were held, equal
\* the bytes at the old pointer before the call, at every zero-on-free depth.
C4_ReallocPreservesContents ==
  [][\A h \in outstanding :
       (/\ Returned("realloc")
        /\ call'.ptr = h.ptr
        /\ call'.size >= h.size
        /\ call'.ret # NULL) =>
         Load(St', call'.ret, h.size) = Load(St, h.ptr, h.size)]_vars

\* the sizes no segment of the heap can hold
CannotHold(size) == ULt(HEAP_SIZE, size)

\* the result ret of malloc(size) is a small-pool pointer or the pointer of
\* a segment of sg that is in use and has room for size bytes
FitsInUse(sg, ret, size) ==
  \/ is_small_allocation(ret)
  \/ /\ SegmentAddr(ret) \in DOMAIN sg
     /\ sg[SegmentAddr(ret)].is_free = 0
     /\ ULe(size, sg[SegmentAddr(ret)].size * BLOCK_SIZE
                    - (ret - SegmentAddr(ret)))

\* C8: malloc returns null for every size the heap cannot hold, sizes near
\* SIZE_MAX whose sum with the header wraps included, and a non-null result
\* is never a segment smaller than the request or left marked free.
C8_MallocNullWhenTooLarge ==
  [][Returned("malloc") =>
       /\ CannotHold(call'.size) => call'.ret = NULL
       /\ call'.ret # NULL => FitsInUse(seg', call'.ret, call'.size)]_vars

\* the step is a malloc that has returned null or a realloc with a non-zero
\* size that has returned null
Failed ==
  /\ call'.ret = NULL
  /\ \/ Returned("malloc")
     \/ Returned("realloc") /\ call'.size # 0

\* C9: a malloc that returns null and a realloc with a non-zero size that
\* returns null leave the statistics counters, the small-pool bitmap and the
\* segment list as they were, also when the call is the first to reach the
\* block heap (the list is compared from its creation on).
C9_FailureLeavesStateUnchanged ==
  [][Failed =>
       /\ allocation_stats' = allocation_stats
       /\ small_block_bitmap' = small_block_bitmap
       /\ heap_initialized # 0 =>
            /\ SegList' = SegList
            /\ \A i \in 1 .. Len(SegList) : seg'[SegList[i]] = seg[SegList[i]]]_vars

C11_DoubleFreeRefused ==
  [][Returned("free again") =>
       /\ seg' = seg
       /\ segments' = segments
       /\ last_free_segment' = last_free_segment
       /\ allocation_stats' = allocation_stats
       /\ St' = St]_vars

\* a block-heap pointer has been freed twice, and the first free merged its
\* segment into the free segment before it
C11_Witness ==
  /\ call.op = "free again"
  /\ seg[SegmentAddr(call.ptr)].is_free # 0
  /\ ~InList(SegmentAddr(call.ptr))

\* C12: free of a null pointer, and free of a pointer the allocator has not
\* handed out (the address of a later slot of a live small-pool run), leaves
\* the whole allocator state unchanged, with debug mode on or off.
C12_BadFreeIgnored ==
  [][(Returned("free null") \/ Returned("free inside")) => St' = St]_vars

\* the sizes and free flags of the segments of st, in list order; a heap not
\* yet initialised is viewed as EnsureHeapInitialized will make it
SegViewOf(st) ==
  [i \in 1 .. Len(ListFrom(st.seg, st.segments)) |->
     [size |-> st.seg[ListFrom(st.seg, st.segments)[i]].size,
      is_free |-> st.seg[ListFrom(st.seg, st.segments)[i]].is_free]]

SegView(st) == SegViewOf(EnsureHeapInitialized(st))

\* _free of the pointer the call with result m has returned
FreeReturned(m) == free(m.st, m.ret)

\* p = malloc(n); free(p)
RoundTrip(st, n) == FreeReturned(malloc(st, n))

\* C13: from any state reached by malloc and free calls only, p = malloc(n)
\* followed at once by free(p) restores the segment list (sizes and free
\* flags, in order) and the small-pool bitmap.
C13_MallocFreeRoundTrip ==
  \A n \in Sizes :
    /\ SegView(RoundTrip(St, n)) = SegView(St)
    /\ RoundTrip(St, n).small_block_bitmap = small_block_bitmap

\* after mallocs and a free, with a block still held, a malloc would split a
\* free segment that lies between or after segments in use
C13_Witness ==
  /\ call.op = "free"
  /\ BlockHeld # {}
  /\ \E n \in Sizes :
       /\ malloc(St, n).ret # NULL
       /\ ~is_small_allocation(malloc(St, n).ret)
       /\ Len(SegView(malloc(St, n).st)) > Len(SegView(St))

\* C14: once every block-heap pointer the client held has been freed, the
\* segment list is a single free segment spanning the whole heap.
C14_AllFreedGivesOneSegment ==
  (heap_initialized # 0 /\ BlockHeld = {}) =>
    /\ Len(SegList) = 1
    /\ seg[SegList[1]].is_free # 0
    /\ seg[SegList[1]].size =
         (HEAP_SIZE - (AlignUp(memory_base) - memory_base)) \div BLOCK_SIZE

\* C15: realloc(null, s) behaves exactly like malloc(s) for every s: from the
\* same state it returns the same pointer and gives the same allocator state.
C15_ReallocNullIsMalloc ==
  \A s \in Sizes \cup WrapSizes : realloc(St, NULL, s) = malloc(St, s)

\* realloc(null, s) has returned a block of the block heap while another
\* block is held
C15_Witness ==
  /\ call.op = "realloc" /\ call.ptr = NULL
  /\ call.ret # NULL /\ ~is_small_allocation(call.ret)
  /\ Cardinality(outstanding) >= 2

\* C16: realloc(p, 0) with p non-null returns null and leaves the allocator
\* in the state free(p) gives from the same starting state.
C16_ReallocZeroIsFree ==
  \A h \in outstanding :
    realloc(St, h.ptr, 0) = [st |-> free(St, h.ptr), ret |-> NULL]

\* realloc(p, 0) has released a held block of the block heap
C16_Witness ==
  /\ call.op = "realloc" /\ call.ptr # NULL /\ call.size = 0
  /\ ~is_small_allocation(call.ptr)
  /\ seg[SegmentAddr(call.ptr)].is_free # 0
  /\ allocation_stats.total_freed > 0

\* C17: for a held pointer p that malloc(s) has just returned, from the small
\* pool or from the block heap, realloc(p, s) with the same size s returns p.
C17_ReallocSameSizeReturnsSame ==
  [][\A h \in outstanding :
       (/\ call.op = "malloc" /\ call.ret = h.ptr /\ call.size = h.size
        /\ Returned("realloc")
        /\ call'.ptr = h.ptr
        /\ call'.size = h.size) =>
         call'.ret = h.ptr]_vars

\* C18: realloc(p, size) with p non-null and size > HEAP_SIZE / 2 returns null
\* and leaves the whole allocator state, p's allocation included, untouched;
\* a size of exactly HEAP_SIZE / 2 passes the limit and is served as any
\* smaller size is.
C18_ReallocSizeLimit ==
  [][\A h \in outstanding :
       (Returned("realloc") /\ call'.ptr = h.ptr /\ call'.size # 0) =>
         /\ ULt(HalfHeap, call'.size) =>
              call'.ret = NULL /\ St' = St /\ h \in outstanding'
         /\ call'.size = HalfHeap =>
              /\ call'.ret = realloc_within_limit(St, h.ptr, HalfHeap).ret
              /\ St' = realloc_within_limit(St, h.ptr, HalfHeap).st]_vars

\* a realloc of a held pointer to exactly HEAP_SIZE / 2 has succeeded
C18_Witness ==
  /\ call.op = "realloc" /\ call.ptr # NULL
  /\ call.size = HalfHeap /\ call.ret # NULL
  /\ \E h \in outstanding : h.ptr = call.ret /\ h.size = HalfHeap

\* the bitmap has a run of k consecutive clear slots
HasClearRun(bitmap, k) ==
  \E i \in DOMAIN bitmap :
    \A j \in i .. i + k - 1 : j \in DOMAIN bitmap /\ bitmap[j] = 0

\* C19: malloc(n) with 1 <= n <= 256 returns an address inside the small pool
\* whenever the bitmap has a run of ceil(n / 32) consecutive clear slots at
\* the moment of the call, and is served from the block heap (a pointer
\* outside the small pool, or null) only when there is no such run.
C19_SmallPoolResidency ==
  [][(/\ Returned("malloc")
      /\ call'.size >= 1
      /\ call'.size <= SMALL_ALLOCATION_THRESHOLD) =>
       (is_small_allocation(call'.ret) <=>
          HasClearRun(small_block_bitmap, BlocksNeeded(call'.size)))]_vars

\* a small request was served from the block heap while the pool still had a
\* clear slot, but no run long enough
C19_Witness ==
  /\ call.op = "malloc"
  /\ call.size >= 1 /\ call.size <= SMALL_ALLOCATION_THRESHOLD
  /\ call.ret # NULL /\ ~is_small_allocation(call.ret)
  /\ \E i \in DOMAIN small_block_bitmap : small_block_bitmap[i] = 0

C21_PointerRoundTrip ==
  /\ \A i \in 1 .. Len(SegList) :
       PtrToSegment(St, SegmentToPtr(SegList[i])) = SegList[i]
  /\ (call.op = "malloc" /\ call.ret # NULL /\ ~is_small_allocation(call.ret)) =>
       /\ SegmentAddr(call.ret) \in DOMAIN seg
       /\ InList(PtrToSegment(St, call.ret))
       /\ seg[SegmentAddr(call.ret)].is_free = 0
       /\ seg[SegmentAddr(call.ret)].allocation_id = next_allocation_id - 1

\* with debug mode on, malloc has returned a block of a heap that was split
\* several times and in which a merge has absorbed a header
C21_Witness ==
  /\ call.op = "malloc" /\ call.ret # NULL /\ ~is_small_allocation(call.ret)
  /\ debug_mode # 0
  /\ Len(SegList) >= 3
  /\ \E h \in DOMAIN seg : ~InList(h)

\* the segments of the list that are in use
InUseSegments == {s \in DOMAIN seg : InList(s) /\ seg[s].is_free = 0}

\* the record after the header at s holds the header guard and the checksum
\* of the header as it is now
RecordIntact(s) ==
  /\ (s + SizeofSegment) \in DOMAIN integrity
  /\ integrity[s + SizeofSegment].header_guard = HEADER_GUARD_VALUE
  /\ integrity[s + SizeofSegment].checksum = calculate_segment_checksum(seg[s])

\* the last four bytes of the block range of the segment at s hold the footer
\* guard
FooterIntact(s) == Load(St, SegEnd(s) - SizeofFooter, SizeofFooter) = FooterRun

\* C22: with an integrity check level >= 2 set before the first allocation
\* and nobody writing into the metadata, after any sequence of malloc, free
\* and realloc calls every in-use segment has its header guard, its stored
\* checksum equals the checksum of its header as it is now, at level 3 its
\* footer guard is in place too, and HeapVerifyIntegrity(0) reports 0 errors.
C22_InUseSegmentsPassIntegrity ==
  (integrity_check_level >= 2 /\ heap_initialized # 0) =>
    /\ \A s \in InUseSegments :
         /\ RecordIntact(s)
         /\ integrity_check_level >= 3 => FooterIntact(s)
    /\ HeapVerifyIntegrity(St, 0).errors = 0

\* the number of blocks from the segment at s to its successor, or to the
\* end of the heap
BlocksUntilNext(s) ==
  IF seg[s].next # NULL THEN (seg[s].next - s) \div BLOCK_SIZE
  ELSE (AlignUp(memory_base) + HEAP_SIZE - s) \div BLOCK_SIZE

\* C23: after the magic, the size, the stored checksum, the header guard,
\* the footer guard of a segment or the back-pointer of its successor was
\* corrupted, one HeapVerifyIntegrity(1) repairs it: HeapVerifyIntegrity(0)
\* called next reports 0 errors, the segment has its magic and the size it
\* had, and at level 3 its successor points back to it.
C23_RepairRestoresSegment ==
  call.op = "HeapVerifyIntegrity" =>
    /\ HeapVerifyIntegrity(St, 0).errors = 0
    /\ seg[call.ptr].magic = SEGMENT_MAGIC
    /\ seg[call.ptr].size = BlocksUntilNext(call.ptr)
    /\ (integrity_check_level >= 3 /\ seg[call.ptr].next # NULL) =>
         seg[seg[call.ptr].next].prev = call.ptr

\* the call that has just returned went to the block heap: a _malloc or
\* _realloc that the small pool did not serve, and every call with the
\* stale pointer
ReachedBlockHeap ==
  \/ /\ Returned("malloc") \/ Returned("realloc")
     /\ call'.size # 0
     /\ ~ULt(HalfHeap, call'.size) \/ call'.ptr = NULL
     /\ ~is_small_allocation(call'.ret)
  \/ Returned("free stale")
  \/ Returned("realloc stale") /\ call'.size # 0 /\ ~ULt(HalfHeap, call'.size)

\* C24: whichever of malloc, realloc and free is the first call to reach the
\* block heap, the static region is installed by it: when it returns
\* heap_initialized is set and the segment list, starting at the aligned
\* start of memory[], has all the blocks of the region.
C24_FirstCallInstallsHeap ==
  [][(heap_initialized = 0 /\ ReachedBlockHeap) =>
       /\ heap_initialized' # 0
       /\ segments' = AlignUp(memory_base)
       /\ SumSizes(seg', ListFrom(seg', segments')) = HEAP_SIZE \div BLOCK_SIZE]_vars

\* the bytes of the user region of the held block h: from h.ptr to the end of
\* its slot run or of its segment
RegionSize(h) ==
  IF is_small_allocation(h.ptr) THEN BlocksNeeded(h.size) * SMALL_BLOCK_SIZE
  ELSE SegEnd(SegOf(h)) - h.ptr

\* the number of bytes the zero-on-free policy wants zeroed of a region of
\* n bytes
PolicyZeroSize(n) ==
  IF zero_on_free_depth = ZERO_DEPTH_NONE THEN 0
  ELSE IF zero_on_free_depth = ZERO_DEPTH_SHALLOW
  THEN (IF shallow_zero_size < n THEN shallow_zero_size ELSE n)
  ELSE IF zero_on_free_depth = ZERO_DEPTH_MEDIUM THEN n \div 2
  ELSE n

\* the bytes of both arrays outside the n bytes at address a are the same in
\* st1 and st2
SameOutside(st1, st2, a, n) ==
  IF is_small_allocation(a)
  THEN /\ st1.memory = st2.memory
       /\ Take(st1.small_pool, a - small_pool_base)
            = Take(st2.small_pool, a - small_pool_base)
       /\ Norm(Drop(st1.small_pool, a + n - small_pool_base))
            = Norm(Drop(st2.small_pool, a + n - small_pool_base))
  ELSE /\ st1.small_pool = st2.small_pool
       /\ Take(st1.memory, a - memory_base) = Take(st2.memory, a - memory_base)
       /\ Norm(Drop(st1.memory, a + n - memory_base))
            = Norm(Drop(st2.memory, a + n - memory_base))

\* C25: free(p) of a held pointer zeroes the first z bytes of p's user
\* region, z being 0, min(shallow_zero_size, region), region / 2 or the
\* whole region at depth 0, 1, 2, 3, for block-heap and small-pool pointers
\* alike, and changes no byte outside the region.
C25_ZeroOnFreeWithinRegion ==
  [][\A h \in outstanding :
       (Returned("free") /\ call'.ptr = h.ptr) =>
         /\ Load(St', h.ptr, PolicyZeroSize(RegionSize(h)))
              = ZeroRun(PolicyZeroSize(RegionSize(h)))
         /\ SameOutside(St, St', h.ptr, RegionSize(h))]_vars

\* the small-pool slots and the block range behind a held pointer
SlotsOf(h) == {i \in DOMAIN small_block_bitmap :
                 small_pool_base + i * SMALL_BLOCK_SIZE >= h.ptr
                 /\ small_pool_base + i * SMALL_BLOCK_SIZE < h.ptr + h.size}

\* C26: with worker threads calling malloc and free concurrently after
\* HeapEnableThreadSafety(1), no two calls return the same segment or the
\* same small-pool slots (no two pointers held share slots, a segment or
\* overlapping block ranges), and the segment list stays well-formed: it
\* covers the heap from its first block on, each segment starting where its
\* predecessor ends.
C26_ConcurrentCallsReturnDistinct ==
  /\ \A h1, h2 \in SmallHeld : h1 # h2 => SlotsOf(h1) \cap SlotsOf(h2) = {}
  /\ \A h1, h2 \in BlockHeld :
       h1 # h2 => /\ SegOf(h1) # SegOf(h2)
                  /\ SegOf(h1) \in DOMAIN seg /\ SegOf(h2) \in DOMAIN seg
                  /\ Disjoint(SegOf(h1), SegOf(h2))
  /\ heap_initialized # 0 =>
       /\ SegList # <<>>
       /\ SegList[1] = AlignUp(memory_base)
       /\ \A i \in 1 .. Len(SegList) - 1 : SegList[i + 1] = SegEnd(SegList[i])

\* the step is a _malloc call that returns a block of the block heap
BlockMalloc ==
  Returned("malloc") /\ call'.ret # NULL /\ ~is_small_allocation(call'.ret)

\* _malloc chose the segment it of st and it has more than one block beyond
\* the required_blocks
SplitCase(st, it, required_blocks) ==
  it # NULL /\ st.seg[it].size > required_blocks + 1

\* the caller gets the head, which keeps required_blocks and is in use; the
\* tail has the surplus, is free and is the hint
HeadGranted(st, it, required_blocks) ==
  /\ call'.ret = SegmentToPtr(it)
  /\ seg'[it].is_free = 0
  /\ seg'[it].size = required_blocks
  /\ seg'[it].next = it + required_blocks * BLOCK_SIZE
  /\ seg'[seg'[it].next].is_free # 0
  /\ seg'[seg'[it].next].size = st.seg[it].size - required_blocks
  /\ last_free_segment' = seg'[it].next

\* the caller gets a pointer into the tail; the head keeps the surplus, is
\* free and is the hint
TailGranted(st, it, required_blocks) ==
  /\ call'.ret > it + (st.seg[it].size - required_blocks) * BLOCK_SIZE
  /\ seg'[it].is_free # 0
  /\ seg'[it].size = st.seg[it].size - required_blocks
  /\ last_free_segment' = it

HeadOnSplit(st, it, required_blocks) ==
  SplitCase(st, it, required_blocks) => HeadGranted(st, it, required_blocks)
HeadOnSplitIn(st, required_blocks) ==
  HeadOnSplit(st, FindFree(st, required_blocks), required_blocks)
TailOnSplit(st, it, required_blocks) ==
  SplitCase(st, it, required_blocks) => TailGranted(st, it, required_blocks)
TailOnSplitIn(st, required_blocks) ==
  TailOnSplit(st, FindFree(st, required_blocks), required_blocks)

FoundSize(sg, s) == IF s = NULL THEN 0 ELSE sg[s].size

\* C28: for every required block count, the segment the two-stage search of
\* malloc selects (from last_free_segment, then from the list head) has the
\* same size as the one a single best-fit walk over the whole list from the
\* head selects: it is a smallest free segment that fits.
C28_HintSearchIsBestFit ==
  heap_initialized # 0 =>
    \A required_blocks \in 1 .. HeapBlocks :
      FoundSize(seg, FindFree(St, required_blocks))
        = FoundSize(seg, SearchFree(seg, segments, required_blocks))

\* the segment s of sg is free and has at least required_blocks
Fits(sg, s, required_blocks) ==
  sg[s].is_free # 0 /\ sg[s].size >= required_blocks

\* l[i] fits, no segment of the walk l that fits is smaller, and none of the
\* same size comes before it
IsFirstSmallest(sg, l, i, required_blocks) ==
  /\ Fits(sg, l[i], required_blocks)
  /\ \A j \in 1 .. Len(l) :
       Fits(sg, l[j], required_blocks) =>
         \/ sg[l[i]].size < sg[l[j]].size
         \/ sg[l[i]].size = sg[l[j]].size /\ i <= j

\* r is what a best-fit search over the walk l has to return
IsBestFit(sg, l, r, required_blocks) ==
  IF r = NULL
  THEN \A j \in 1 .. Len(l) : ~Fits(sg, l[j], required_blocks)
  ELSE \E i \in 1 .. Len(l) :
         l[i] = r /\ IsFirstSmallest(sg, l, i, required_blocks)

\* the segment of the list whose block range holds the address a
Holding(a) == {s \in DOMAIN seg : InList(s) /\ s <= a /\ a < SegEnd(s)}

\* the request that needs exactly the blocks of the segment s
ExactRequest(s) == seg[s].size * BLOCK_SIZE - SizeofSegment - ALIGNMENT

\* the client has just freed a block of the block heap
BlockFreed ==
  call.op = "free" /\ call.ptr # NULL /\ ~is_small_allocation(call.ptr)

\* C29: SearchFree(start, n) returns null iff no free segment of size >= n is
\* reachable from start by next links; otherwise it returns the first, in
\* list order, of the free segments of minimal size among those (so a segment
\* of size exactly n is returned as soon as it is met).  And right after
\* free(p), a malloc whose required block count equals the size of the free
\* segment that holds p's block gets that segment.
C29_SearchFreeBestFit ==
  /\ \A start \in {s \in DOMAIN seg : InList(s)} :
       \A required_blocks \in 1 .. HeapBlocks :
         IsBestFit(seg, ListFrom(seg, start),
                   SearchFree(seg, start, required_blocks), required_blocks)
  /\ BlockFreed =>
       \A s \in Holding(call.ptr) :
         /\ seg[s].is_free # 0
         /\ FindFree(St, seg[s].size) = s
         /\ malloc(St, ExactRequest(s)).ret = SegmentToPtr(s)

\* a block between two blocks in use has just been freed, so that searches
\* start at segments in use and free ones, and the freed segment is reused
C29_Witness ==
  /\ BlockFreed
  /\ \E s \in Holding(call.ptr) :
       /\ seg[s].prev # NULL /\ seg[seg[s].prev].is_free = 0
       /\ seg[s].next # NULL /\ seg[seg[s].next].is_free = 0
       /\ SearchFree(seg, segments, seg[s].size) = s

\* C30: every time a call of malloc, free or realloc (MergeSegment included)
\* leaves last_free_segment with a new non-null value, the segment it is set
\* to is free.  (No call changes is_free of a segment after the last
\* assignment it makes to last_free_segment, so the segment's state when the
\* call returns is its state at the assignment.)
C30_HintAssignedFree ==
  [][(last_free_segment' # last_free_segment /\ last_free_segment' # NULL) =>
       /\ last_free_segment' \in DOMAIN seg'
       /\ seg'[last_free_segment'].is_free # 0]_vars

\* the step is a _realloc of the held block-heap block h that shrinks it in
\* place and splits off a free tail
ShrinkSplit(h) ==
  /\ Returned("realloc") /\ call'.ptr = h.ptr /\ call'.ret = h.ptr
  /\ call'.size # 0
  /\ seg[SegOf(h)].size > RequiredBlocks(call'.size) + SpareBlocks

\* C31: a shrinking realloc that splits off a free tail reduces
\* total_allocated by s.size - required_blocks, the number of blocks given
\* back, s.size being the block count of the segment before the shrink.
C31_ShrinkSubtractsBlocksGivenBack ==
  [][\A h \in BlockHeld :
       ShrinkSplit(h) =>
         allocation_stats'.total_allocated =
           allocation_stats.total_allocated
             - (seg[SegOf(h)].size - RequiredBlocks(call'.size))]_vars

\* the block-heap block h is in use, needs more blocks for size, and its
\* successor is free and covers the requirement together with it
CanGrow(h, size) ==
  /\ SegOf(h) \in DOMAIN seg /\ InList(SegOf(h))
  /\ seg[SegOf(h)].is_free = 0
  /\ seg[SegOf(h)].size < RequiredBlocks(size)
  /\ seg[SegOf(h)].next # NULL
  /\ seg[seg[SegOf(h)].next].is_free # 0
  /\ seg[SegOf(h)].size + seg[seg[SegOf(h)].next].size >= RequiredBlocks(size)

\* the step is a _realloc of h to a nonzero size
ReallocOf(h) == Returned("realloc") /\ call'.ptr = h.ptr /\ call'.size # 0

\* the segment s, followed by nxt before the step, has absorbed nxt: of the
\* total blocks of the two it keeps required_blocks and is followed by a free
\* segment with the rest if the rest is more than one block, else it keeps
\* them all
Absorbed(s, nxt, total, required_blocks) ==
  /\ seg'[s].is_free = 0
  /\ \A i \in 1 .. Len(ListFrom(seg', segments')) :
       ListFrom(seg', segments')[i] # nxt
  /\ IF total > required_blocks + 1
     THEN /\ seg'[s].size = required_blocks
          /\ seg'[s].next = s + required_blocks * BLOCK_SIZE
          /\ seg'[seg'[s].next].is_free # 0
          /\ seg'[seg'[s].next].size = total - required_blocks
          /\ seg'[seg'[s].next].next = seg[nxt].next
     ELSE /\ seg'[s].size = total
          /\ seg'[s].next = seg[nxt].next

\* the growth in place of the held block h at segment s
GrownInPlace(h, s) ==
  /\ call'.ret = h.ptr
  /\ Absorbed(s, seg[s].next, seg[s].size + seg[seg[s].next].size,
              RequiredBlocks(call'.size))
  /\ Load(St', h.ptr, h.size) = Load(St, h.ptr, h.size)

\* C32 (as amended): realloc(p, size) with size at most HEAP_SIZE / 2 on an
\* in-use block-heap segment that needs more blocks, whose successor is free
\* and whose block count plus the successor's covers the requirement, grows
\* in place: it returns p itself, the successor is absorbed into p's segment,
\* a surplus of more than one block is split off as a free segment, and no
\* user data is moved.
C32_GrowsInPlaceWithinLimit ==
  [][\A h \in BlockHeld :
       (ReallocOf(h) /\ CanGrow(h, call'.size) /\ ULe(call'.size, HalfHeap)) =>
         GrownInPlace(h, SegOf(h))]_vars

\* C32 (as stated): the same for every size.
C32_GrowsInPlace ==
  [][\A h \in BlockHeld :
       (ReallocOf(h) /\ CanGrow(h, call'.size)) =>
         GrownInPlace(h, SegOf(h))]_vars

\* a realloc has just grown a block in place and split off the surplus: the
\* block it returned is the one it was given, and a fresh free segment that
\* is the hint follows it
C32_Witness ==
  /\ call.op = "realloc" /\ call.ptr # NULL /\ call.ret = call.ptr
  /\ ~is_small_allocation(call.ptr)
  /\ call.size > call.held
  /\ seg[SegmentAddr(call.ret)].size = RequiredBlocks(call.size)
  /\ RequiredBlocks(call.size) > RequiredBlocks(call.held)
  /\ seg[SegmentAddr(call.ret)].next # NULL
  /\ last_free_segment = seg[SegmentAddr(call.ret)].next
  /\ seg[last_free_segment].is_free # 0

\* C33: for every segment of the list (each sits at a 16-byte-aligned
\* address) the integrity record fits entirely between the end of the segment
\* header and the user pointer: get_segment_integrity does not return null,
\* and the record ends at or before the user pointer.
C33_IntegrityRecordFits ==
  \A s \in DOMAIN seg :
    (InList(s) /\ s % ALIGNMENT = 0) =>
      /\ get_segment_integrity(s) # NULL
      /\ get_segment_integrity(s) + SizeofIntegrity <= SegmentToPtr(s)

\* the walk by next links from s ends at null within fuel steps, over
\* headers at strictly increasing addresses
RECURSIVE WalkEnds(_, _, _)
WalkEnds(sg, s, fuel) ==
  \/ s = NULL
  \/ /\ fuel > 0
     /\ s \in DOMAIN sg
     /\ sg[s].next = NULL \/ sg[s].next > s
     /\ WalkEnds(sg, sg[s].next, fuel - 1)

\* C34: every call of malloc, free, realloc, HeapGetFragmentation and
\* HeapVerifyIntegrity terminates from every reachable state: the walks by
\* next links, from the list head and from the hint, visit headers at
\* strictly increasing addresses and end at null after at most as many steps
\* as the heap has blocks, and the bitmap the scans run over has exactly the
\* slot count.
C34_WalksTerminate ==
  /\ WalkEnds(seg, segments, HeapBlocks)
  /\ WalkEnds(seg, last_free_segment, HeapBlocks)
  /\ DOMAIN small_block_bitmap = 0 .. NumSlots - 1

\* the heap has just been verified or measured with three or more segments
\* in the list, one of them free before one in use, and a slot in use
C34_Witness ==
  /\ call.op \in {"HeapGetFragmentation", "HeapVerifyIntegrity"}
  /\ Len(SegList) >= 3
  /\ \E i \in 1 .. Len(SegList) - 1 :
       seg[SegList[i]].is_free # 0 /\ seg[SegList[i + 1]].is_free = 0
  /\ \E i \in DOMAIN small_block_bitmap : small_block_bitmap[i] = 1

\* C35: in every reachable state the segment list is a well-formed doubly
\* linked list: the head has no prev, and every segment with a successor is
\* the prev of its successor.
C35_DoublyLinked ==
  heap_initialized # 0 =>
    /\ segments # NULL /\ seg[segments].prev = NULL
    /\ \A i \in 1 .. Len(SegList) :
         seg[SegList[i]].next # NULL =>
           seg[seg[SegList[i]].next].prev = SegList[i]

\* a segment in the middle of the list has been split by a shrink (it is in
\* use and followed by a free segment that has a successor) and a merge has
\* absorbed a header
C35_Witness ==
  /\ call.op = "realloc" /\ call.ret = call.ptr /\ call.size < call.held
  /\ ~is_small_allocation(call.ret)
  /\ seg[SegmentAddr(call.ret)].next = last_free_segment
  /\ last_free_segment # NULL
  /\ seg[last_free_segment].next # NULL
  /\ \E h \in DOMAIN seg : ~InList(h)

\* C36: when realloc(p, size) has returned a non-null pointer q, the memory
\* of q is marked allocated: all ceil(size / 32) slots of q are set in the
\* small-pool bitmap, or q's segment is in the list and in use.
C36_ReallocResultMarkedAllocated ==
  (call.op = "realloc" /\ call.ret # NULL) =>
    IF is_small_allocation(call.ret)
    THEN \A i \in StartBlock(call.ret) ..
                    StartBlock(call.ret) + BlocksNeeded(call.size) - 1 :
           small_block_bitmap[i] = 1
    ELSE /\ InList(SegmentAddr(call.ret))
         /\ seg[SegmentAddr(call.ret)].is_free = 0

\* C37: in every reachable state small_pool_used equals SMALL_BLOCK_SIZE
\* times the number of bits set in the small-pool bitmap, also after the
\* block heap has been initialized with small allocations outstanding.
C37_SmallPoolUsedMatchesBitmap ==
  allocation_stats.small_pool_used =
    SMALL_BLOCK_SIZE
      * Cardinality({i \in DOMAIN small_block_bitmap : small_block_bitmap[i] = 1})

\* C38: in every reachable state last_free_segment is null or a segment of
\* the list; it is never a header that a merge has absorbed.
C38_HintInList ==
  last_free_segment = NULL \/ InList(last_free_segment)

\* a free has just merged the freed segment into its free predecessor: the
\* header of the freed block is no longer in the list, and the hint is set
C38_Witness ==
  /\ BlockFreed
  /\ SegmentAddr(call.ptr) \in DOMAIN seg
  /\ ~InList(SegmentAddr(call.ptr))
  /\ last_free_segment # NULL
  /\ last_free_segment < SegmentAddr(call.ptr)

\* C39: after a successful block-heap malloc(size), and after any
\* realloc(p, size) that returns a block-heap pointer, the segment backing
\* the returned pointer has required_blocks or required_blocks + 1 blocks,
\* required_blocks = ceil((size + sizeof(segment_t) + ALIGNMENT) / BLOCK_SIZE).
C39_GrantedBlockCount ==
  (/\ call.op \in {"malloc", "realloc"}
   /\ call.ret # NULL
   /\ ~is_small_allocation(call.ret)) =>
    \/ seg[SegmentAddr(call.ret)].size = RequiredBlocks(call.size)
    \/ seg[SegmentAddr(call.ret)].size = RequiredBlocks(call.size) + 1
====
